---------------------------- MODULE Spec2Model ----------------------------
(***************************************************************************)
(* A model of the swap recorder (fallenstarzz/API-Grabber):                *)
(*   - DataOptimizer   : the optimisation passes over a Recording          *)
(*   - FrameManager    : frame lookup and the polling wait for a frame     *)
(*   - WaitManager     : the heuristic waits, with their timers            *)
(*   - RecorderEngine  : the session, its buffers and its event handlers   *)
(* Each part has its own specification over the module's variables; the    *)
(* variables of the other parts keep their initial values.                 *)
(***************************************************************************)
EXTENDS Integers, Sequences, FiniteSets, TLC

VARIABLES
  \* DataOptimizer
  recActions,      \* this.recording.actions
  optPc,           \* "ready" before optimize(), "done" after it
  uniqueActions,   \* the result of removeDuplicates()
  swapFlow,        \* this.optimizedData.swapFlow
  summary,         \* this.optimizedData.summary
  recNetwork,      \* this.recording.networkRequests
  apiEndpoints,    \* this.optimizedData.apiEndpoints
  essentialSelectors, \* this.optimizedData.essentialSelectors: role -> selector
  recUrl,          \* this.recording.url
  dexClass,        \* dexType, swapComplexity, estimatedSuccessRate, riskLevel of the summary
  firstResult,     \* what the first optimize() had returned when it was called again
  \* normalizeUrl, applied once and twice to a url
  url,             \* the url string, a sequence of characters
  urlOnce,         \* normalizeUrl(url)
  urlTwice,        \* normalizeUrl(normalizeUrl(url))
  urlPc,           \* "input", "once", "twice"
  \* FrameManager
  frames,          \* page.frames(): the main frame first, then the embedded frames
  frameHierarchy,  \* this.frameHierarchy: url -> frame
  currentFrame,    \* this.currentFrame
  detectProbes,    \* the frames of the last detectFrameContext and what page.$ / frame.$ did
  detectResult,    \* what the last detectFrameContext returned
  framesInfo,      \* what the last getAllFramesInfo returned
  infoCall,        \* the last getAllFramesInfo: the frames whose evaluation threw
  wfPc,            \* waitForFrame: "idle", "check", "sleep", "found", "null"
  wfPattern,       \* its urlPattern
  wfTimeout,       \* its timeout (ms)
  wfElapsed,       \* Date.now() - startTime (ms)
  wfLiveMatch,     \* whether a live frame's url contained the pattern at the last poll
  wfResult,        \* the frame it returned
  \* RecorderEngine, the page it records and the driver that calls it
  recording,       \* this.recording
  actionsRef,      \* this.actions: the array it refers to
  netRef,          \* this.networkRequests: the array it refers to
  heap,            \* the arrays: reference -> elements
  startTime,       \* this.startTime
  now,             \* Date.now() (ms)
  newDocScripts,   \* scripts registered with evaluateOnNewDocument
  requestHandlers, \* handlers registered with page.on('request')
  navHandlers,     \* handlers registered with page.on('framenavigated')
  memoryTimers,    \* live intervals of startMemoryMonitoring
  lastCleanup,     \* this.memoryUsage.lastCleanup
  docs,            \* the live frames' documents: frame id -> listeners, buffer, stop marker
  callerPc,        \* the engine's caller: "idle", or where its waitForStop() is:
                   \* "armed", "polling", "settling"
  sessions,        \* sessions started so far
  returned,        \* the Recordings stopRecording returned, as they were on return
  reqLog,          \* what the 'request' handlers did with the last request
  errorCount,      \* this.errorCount
  retryPending,    \* handleRecordingError is in its delay before it sets the listeners up again
  lastFault,       \* the last call of handleRecordingError
  drainFailed,     \* the frames whose frame.evaluate threw in the last stopRecording
  startCall,       \* the last startRecording: the steps that failed and how it ended
  \* WaitManager: the wait in flight
  wmWait,          \* its name, "none" when no wait is in flight
  wmArg,           \* what it found when called (see WaitArgs)
  wmPhase,         \* which of its awaits it is in
  wmElapsed,       \* ms since it was called
  wmPhaseElapsed,  \* ms since the await began
  \* WaitManager: the last call of waitBeforeAction or waitAfterAction
  smartWaitEnabled, \* this.smartWaitEnabled
  waEntry,         \* "none", "waitBeforeAction" or "waitAfterAction"
  waFails,         \* the steps whose page call threw or timed out during it
  waChanges,       \* what detectChanges found
  waResult,        \* "none", "returned" or "raised"
  waSignals,       \* what the page showed during the last call
  waRan,           \* the waits the last call awaited, in order
  \* waitForNetworkIdle: the promise it evaluates in the page
  niPc,            \* "idle", "observing", "resolved"
  niElapsed,       \* ms since the promise began
  niRequestCount,  \* requestCount
  niTimer,         \* when the settle timer is due (ms since the promise began), -1: none
  niLastLoad,      \* when the observer last saw a resource entry, -1: never
  niLoads,         \* resource entries seen so far
  niResolvedAt,    \* when the promise resolved, -1: not yet
  \* BrowserManager
  retryCall        \* the last retryOperation: what it was given and how it ended

optVars == <<recActions, optPc, uniqueActions, swapFlow, summary, recNetwork, apiEndpoints,
             essentialSelectors, recUrl, dexClass, firstResult>>
urlVars == <<url, urlOnce, urlTwice, urlPc>>
fmVars == <<frames, frameHierarchy, currentFrame, detectProbes, detectResult,
            framesInfo, infoCall>>
wfVars == <<wfPc, wfPattern, wfTimeout, wfElapsed, wfLiveMatch, wfResult>>

engVars == <<recording, actionsRef, netRef, heap, startTime, now, newDocScripts,
             requestHandlers, navHandlers, memoryTimers, lastCleanup, docs, callerPc,
             sessions, returned, reqLog, errorCount, retryPending, lastFault,
             drainFailed, startCall>>

wmVars == <<wmWait, wmArg, wmPhase, wmElapsed, wmPhaseElapsed>>

waVars == <<smartWaitEnabled, waEntry, waFails, waChanges, waResult, waSignals, waRan>>

niVars == <<niPc, niElapsed, niRequestCount, niTimer, niLastLoad, niLoads, niResolvedAt>>

bmVars == <<retryCall>>
vars == <<optVars, urlVars, fmVars, wfVars, engVars, wmVars, waVars, niVars, bmVars>>

-----------------------------------------------------------------------------
(* Bounds of the model *)

\* Longest recording the optimizer is run on.
MaxActions == 3

\* Longest url string normalizeUrl is applied to (characters after the origin).
MaxUrlLen == 4

\* Most embedded frames alive at a time.
MaxFrames == 2

\* Most sessions the driver records on one engine.
MaxSessions == 2

\* Most milliseconds the engine's clock advances.
MaxTicks == 1

\* Most raw actions a document buffers.
MaxBuffer == 2

\* Most requests a session retains.
MaxRequests == 1

\* The network requests of a Recording handed to the optimizer.
MaxApiRequests == 2

\* The resource entries the observer of waitForNetworkIdle sees.
MaxLoads == 3

\* The actions of a Recording of token selections.
MaxDirectionLog == 7

\* The intervals of the memory guard in which the page is busy.
MaxIntervals == 3

\* The intervals of the memory guard that a quiet stretch lasts.
MaxQuietIntervals == 11

\* The largest maxRetries handed to retryOperation.
MaxRetryBound == 6

-----------------------------------------------------------------------------
(* Small helpers *)

Min(S) == CHOOSE x \in S : \A y \in S : x <= y
Max(S) == CHOOSE x \in S : \A y \in S : x >= y
Abs(n) == IF n < 0 THEN -n ELSE n

\* A field the code leaves undefined.
Absent == "undefined"

\* JavaScript truthiness of an optional string.
Truthy(s) == s # Absent /\ s # ""

-----------------------------------------------------------------------------
(* Strings.  The model's strings are TLA+ strings drawn from a fixed        *)
(* vocabulary; toLowerCase() and includes() are tabulated for it.           *)

ToLowerCase(s) ==
  CASE s = "" -> ""
    [] s = "Approve" -> "approve"
    [] s = "MAX" -> "max"
    [] s = "Swap" -> "swap"
    [] s = "Select token" -> "select token"
    [] s = "approve" -> "approve"
    [] s = "max" -> "max"
    [] s = "swap" -> "swap"
    [] s = "select token" -> "select token"
    [] s = "Select token to pay" -> "select token to pay"
    [] s = "select token to pay" -> "select token to pay"
    [] s = "QUOTE" -> "quote"
    [] s = "ETH" -> "eth"
    [] s = "USDC" -> "usdc"
    [] s = "Receive" -> "receive"
    [] s = "Authorization" -> "authorization"
    [] s = "Accept" -> "accept"
    [] s = "Content-Type" -> "content-type"
    [] s = "Execute" -> "execute"
    [] s = "Confirm Swap" -> "confirm swap"
    [] OTHER -> s

\* The keywords of the optimizer that occur in s (String.prototype.includes).
KeywordsIn(s) ==
  CASE s = "" -> {}
    [] s = "Approve" -> {}
    [] s = "MAX" -> {}
    [] s = "Swap" -> {}
    [] s = "Select token" -> {"token", "to"}
    [] s = "approve" -> {"approve"}
    [] s = "max" -> {}
    [] s = "swap" -> {"swap"}
    [] s = "select token" -> {"select token", "token", "to", "select"}
    [] s = "Select token to pay" -> {"token", "to", "pay"}
    [] s = "select token to pay" -> {"select token", "token", "to", "select", "pay"}
    [] s = "text" -> {}
    [] s = "number" -> {}
    [] s = "receive" -> {"receive"}
    [] s = "token-select" -> {"token-select", "token", "select", "to"}
    [] s = "execute" -> {"execute"}
    [] s = "confirm swap" -> {"confirm", "swap"}
    [] OTHER -> {}

Includes(s, kw) == kw \in KeywordsIn(s)

IncludesAny(s, kws) == \E kw \in kws : Includes(s, kw)

\* The first token symbol the regular expression /\b(ETH|BTC|...)\b/i finds.
TokenSymbolIn(s) ==
  CASE s = "ETH" -> "ETH"
    [] s = "USDC" -> "USDC"
    [] OTHER -> Absent

-----------------------------------------------------------------------------
(* RecordedAction and its element snapshot *)

NoElement ==
  [present |-> FALSE, text |-> Absent, type |-> Absent, placeholder |-> Absent,
   name |-> Absent, className |-> Absent, role |-> Absent, innerHTML |-> Absent]

Element(text, type) ==
  [present |-> TRUE, text |-> text, type |-> type, placeholder |-> "",
   name |-> "", className |-> "", role |-> Absent, innerHTML |-> text]

\* What was done, without when: the fields of a RecordedAction but id and timestamp.
ActionKinds ==
  { [type |-> "click", selector |-> "#swap", url |-> Absent, value |-> Absent,
     element |-> Element("Swap", "submit"), isAmountInput |-> FALSE],
    [type |-> "click", selector |-> "#approve", url |-> Absent, value |-> Absent,
     element |-> Element("Approve", "submit"), isAmountInput |-> FALSE],
    [type |-> "input", selector |-> "#amount", url |-> Absent, value |-> "10",
     element |-> Element("", "text"), isAmountInput |-> TRUE],
    [type |-> "input", selector |-> "", url |-> Absent, value |-> "10",
     element |-> Element("", "text"), isAmountInput |-> FALSE],
    [type |-> "navigate", selector |-> Absent, url |-> "https://dex/swap", value |-> Absent,
     element |-> NoElement, isAmountInput |-> FALSE],
    [type |-> "wallet", selector |-> Absent, url |-> Absent, value |-> Absent,
     element |-> NoElement, isAmountInput |-> FALSE] }

\* Clicks on buttons whose text has a keyword of one or of two of the button tests.
ButtonKinds ==
  { [type |-> "click", selector |-> "#swap", url |-> Absent, value |-> Absent,
     element |-> Element("Swap", "submit"), isAmountInput |-> FALSE],
    [type |-> "click", selector |-> "#execute", url |-> Absent, value |-> Absent,
     element |-> Element("Execute", "submit"), isAmountInput |-> FALSE],
    [type |-> "click", selector |-> "#confirm", url |-> Absent, value |-> Absent,
     element |-> Element("Confirm Swap", "submit"), isAmountInput |-> FALSE],
    [type |-> "click", selector |-> "#max", url |-> Absent, value |-> Absent,
     element |-> Element("MAX", "submit"), isAmountInput |-> FALSE] }

\* Session-relative timestamps (ms) on both sides of the 1000 ms and 2000 ms windows.
Timestamps == {0, 1000, 2001}

MkAction(kind, ts, id) ==
  [id |-> id, type |-> kind.type, timestamp |-> ts, selector |-> kind.selector,
   url |-> kind.url, value |-> kind.value, element |-> kind.element,
   isAmountInput |-> kind.isAmountInput]

-----------------------------------------------------------------------------
(* DataOptimizer *)

duplicateThreshold == 1000

\* A key that tells every action from every other.
generateActionKey_Mutant(action) == <<action.type, action.timestamp>>

\* `${action.type}_${action.selector || action.url || action.value}`
generateActionKey(action) ==
  <<action.type,
    IF Truthy(action.selector) THEN action.selector
    ELSE IF Truthy(action.url) THEN action.url
    ELSE action.value>>

\* The test of removeDuplicates with >= for >.
KeepAction_Mutant(actionMap, key, action) ==
  \/ key \notin DOMAIN actionMap
  \/ action.timestamp - actionMap[key].timestamp >= duplicateThreshold

\* !existing || (action.timestamp - existing.timestamp) > this.duplicateThreshold
KeepAction(actionMap, key, action) ==
  \/ key \notin DOMAIN actionMap
  \/ action.timestamp - actionMap[key].timestamp > duplicateThreshold

RECURSIVE DedupFrom(_, _, _, _, _)
DedupFrom(actions, i, actionMap, unique, removed) ==
  IF i > Len(actions) THEN [unique |-> unique, removed |-> removed]
  ELSE LET action == actions[i]
           key == generateActionKey(action)
       IN IF KeepAction(actionMap, key, action)
          THEN DedupFrom(actions, i + 1,
                         [k \in DOMAIN actionMap \cup {key} |->
                            IF k = key THEN action ELSE actionMap[k]],
                         Append(unique, action), removed)
          ELSE DedupFrom(actions, i + 1, actionMap, unique, removed + 1)

\* removeDuplicates(): the kept actions and the new value of summary.duplicatesRemoved.
removeDuplicates(actions, duplicatesRemoved) ==
  DedupFrom(actions, 1, <<>>, <<>>, duplicatesRemoved)

ElementText(action) ==
  IF action.element.present /\ Truthy(action.element.text) THEN action.element.text ELSE ""

isEnhancedTokenSelection(action, text) ==
  /\ action.type = "click"
  /\ \/ Includes(text, "select token")
     \/ Includes(text, "choose token")
     \/ Includes(text, "token")
     \/ Includes(action.element.className, "token-select")
     \/ Includes(action.element.className, "token-button")
     \/ action.element.role = "token-selector"
     \/ Includes(action.element.innerHTML, "token-symbol")
     \/ Includes(action.element.innerHTML, "token-address")

\* extractEnhancedTokenInfo(): the symbol found in the text, else in the markup.
extractEnhancedTokenInfo(action) ==
  IF TokenSymbolIn(action.element.text) # Absent THEN TokenSymbolIn(action.element.text)
  ELSE TokenSymbolIn(action.element.innerHTML)

DirectionCue(action) ==
  LET text == ToLowerCase(ElementText(action))
  IN IF IncludesAny(text, {"from", "pay", "sell", "input"}) THEN "SELECT_FROM"
     ELSE IF IncludesAny(text, {"to", "receive", "buy", "output"}) THEN "SELECT_TO"
     ELSE "none"

\* actions.slice(Math.max(0, index - 5), Math.min(actions.length, index + 5)), 1-based.
NearbyRange(actions, i) == Max({1, i - 5}) .. Min({Len(actions), i + 4})

\* Every selection is the first one.
DefaultDirection_Mutant(flow) == "SELECT_FROM"

\* Default based on order: previousTokenSelections.length === 0.
DefaultDirection(flow) ==
  IF \E k \in 1..Len(flow) : flow[k].action \in {"SELECT_FROM", "SELECT_TO"}
  THEN "SELECT_TO" ELSE "SELECT_FROM"

determineTokenDirection(actions, i, flow) ==
  LET cues == { j \in NearbyRange(actions, i) : DirectionCue(actions[j]) # "none" }
  IN IF cues # {} THEN DirectionCue(actions[Min(cues)])
     ELSE DefaultDirection(flow)

isEnhancedAmountField(action) ==
  /\ action.element.present
  /\ \/ Includes(ToLowerCase(action.element.placeholder), "amount")
     \/ Includes(ToLowerCase(action.element.placeholder), "0.0")
     \/ Includes(ToLowerCase(action.element.placeholder), "enter amount")
     \/ Includes(ToLowerCase(action.element.name), "amount")
     \/ Includes(ToLowerCase(action.element.name), "quantity")
     \/ Includes(action.element.className, "amount-input")
     \/ Includes(action.element.className, "swap-input")
     \/ action.element.type = "number"
     \/ action.element.type = "text"

isEnhancedSwapButton(text) ==
  IncludesAny(ToLowerCase(text),
              {"swap", "exchange", "trade", "convert", "execute", "proceed"})

isEnhancedApproveButton(text) ==
  IncludesAny(ToLowerCase(text),
              {"approve", "allow", "enable", "unlock", "permit", "authorize"})

isEnhancedConfirmButton(text) ==
  IncludesAny(ToLowerCase(text),
              {"confirm", "execute", "proceed", "continue", "submit", "finalize"})

SwapStep(id, kind, value, action, amount, symbol) ==
  [id |-> id, action |-> kind, value |-> value, selector |-> action.selector,
   timestamp |-> action.timestamp, amount |-> amount, tokenSymbol |-> symbol]

\* Pushes a step when cond holds; st is [flow, flowIndex].
PushIf(cond, st, kind, value, action, amount, symbol) ==
  IF cond
  THEN [flow |-> Append(st.flow, SwapStep(st.flowIndex, kind, value, action, amount, symbol)),
        flowIndex |-> st.flowIndex + 1]
  ELSE st

\* swapFlow.find(a => a.action === 'INPUT_AMOUNT' && a.timestamp < action.timestamp)
FindLastInput(flow, action) ==
  LET hits == { k \in 1..Len(flow) :
                  flow[k].action = "INPUT_AMOUNT" /\ flow[k].timestamp < action.timestamp }
  IN IF hits = {} THEN 0 ELSE Min(hits)

\* The amount branch of the scan: a new INPUT_AMOUNT step, or the found one updated.
AmountStep(st, action) ==
  LET k == FindLastInput(st.flow, action)
  IN IF k = 0 \/ action.timestamp - st.flow[k].timestamp > 2000
     THEN PushIf(TRUE, st, "INPUT_AMOUNT", action.value, action,
                 IF Truthy(action.value) THEN action.value ELSE "0", Absent)
     ELSE [st EXCEPT !.flow[k].value = action.value, !.flow[k].amount = action.value]

\* The scan with no test of action.element.
SkipsAction_Mutant(action) == FALSE

\* if (!action.element) continue;
SkipsAction(action) == ~action.element.present

\* The scan reads action.element.text of an action it did not skip and that has no
\* element snapshot: a TypeError.
ScanRaises(actions) ==
  \E i \in DOMAIN actions : ~SkipsAction(actions[i]) /\ ~actions[i].element.present

\* One iteration of the scan of extractEnhancedSwapFlow over actions[i].
ScanAction(actions, i, st) ==
  LET action == actions[i]
      text == ToLowerCase(ElementText(action))
      buttonText == ElementText(action)
      s1 == IF isEnhancedTokenSelection(action, text)
               /\ extractEnhancedTokenInfo(action) # Absent
            THEN PushIf(TRUE, st, determineTokenDirection(actions, i, st.flow),
                        extractEnhancedTokenInfo(action), action, Absent,
                        extractEnhancedTokenInfo(action))
            ELSE st
      s2 == IF action.type = "input" /\ (action.isAmountInput \/ isEnhancedAmountField(action))
            THEN AmountStep(s1, action) ELSE s1
      s3 == PushIf(action.type = "click" /\ isEnhancedSwapButton(buttonText),
                   s2, "CLICK_SWAP", Absent, action, Absent, Absent)
      s4 == PushIf(action.type = "click" /\ isEnhancedApproveButton(buttonText),
                   s3, "APPROVE", Absent, action, Absent, Absent)
      s5 == PushIf(action.type = "click" /\ isEnhancedConfirmButton(buttonText),
                   s4, "CONFIRM", Absent, action, Absent, Absent)
  IN IF SkipsAction(action) THEN st ELSE s5

RECURSIVE ScanFrom(_, _, _)
ScanFrom(actions, i, st) ==
  IF i > Len(actions) THEN st ELSE ScanFrom(actions, i + 1, ScanAction(actions, i, st))

\* (a.timestamp || 0): every step's timestamp is a number, and 0 is the falsy one.
TimestampOrZero(step) == IF step.timestamp = 0 THEN 0 ELSE step.timestamp

RECURSIVE InsertByTimestamp(_, _)
InsertByTimestamp(sorted, step) ==
  IF sorted = <<>> THEN <<step>>
  ELSE IF TimestampOrZero(sorted[Len(sorted)]) <= TimestampOrZero(step)
       THEN Append(sorted, step)
       ELSE Append(InsertByTimestamp(SubSeq(sorted, 1, Len(sorted) - 1), step),
                   sorted[Len(sorted)])

RECURSIVE SortFrom(_, _, _)
SortFrom(flow, i, sorted) ==
  IF i > Len(flow) THEN sorted ELSE SortFrom(flow, i + 1, InsertByTimestamp(sorted, flow[i]))

\* The scan's result left in push order.
SortByTimestamp_Mutant(flow) == flow

\* swapFlow.sort((a, b) => (a.timestamp || 0) - (b.timestamp || 0)): a stable sort.
SortByTimestamp(flow) == SortFrom(flow, 1, <<>>)

\* swapFlow.forEach((action, index) => { action.id = index; })
ReassignIds(flow) == [k \in 1..Len(flow) |-> [flow[k] EXCEPT !.id = k - 1]]

\* extractEnhancedSwapFlow(actions), started on the swap flow the optimizer holds.
extractEnhancedSwapFlow(actions, flow) ==
  ReassignIds(SortByTimestamp(ScanFrom(actions, 1, [flow |-> flow, flowIndex |-> 0]).flow))

\* n / d rounded to the nearest integer, halves away from zero (d > 0).
RoundDiv(n, d) == IF n >= 0 THEN (2 * n + d) \div (2 * d) ELSE -((2 * (-n) + d) \div (2 * d))

\* ((1 - (optimized / original)) * 100).toFixed(1), in tenths of a percent.  A zero
\* divisor gives NaN (0 / 0) or -Infinity (1 - n / 0), which toFixed prints as such.
CompressionRatio(optimized, original) ==
  IF original = 0
  THEN IF optimized = 0 THEN [kind |-> "NaN", tenths |-> 0]
       ELSE [kind |-> "-Infinity", tenths |-> 0]
  ELSE [kind |-> "number", tenths |-> RoundDiv(1000 * (original - optimized), original)]

\* calculateComprehensiveSummary()
calculateComprehensiveSummary(sum, actions, flow) ==
  [sum EXCEPT !.originalActions = Len(actions),
              !.optimizedActions = Len(flow),
              !.swapDetected = Len(flow) > 0,
              !.compressionRatio = CompressionRatio(Len(flow), Len(actions))]

-----------------------------------------------------------------------------
(* normalizeUrl.  A url is a sequence of characters: "h" stands for the scheme *)
(* and host "https://x" and occurs only in front, "a" is a letter, "/" and "?" *)
(* are themselves.  new URL(url) parses the strings that start with "h": the   *)
(* host runs to the first "/" or "?", the path from the first "/" to the first *)
(* "?", and an empty path reads "/".  Every other string makes it throw.       *)

UrlChars == {"a", "/", "?"}

\* The position of the first character of s that is in cs, or Len(s) + 1.
FirstOf(s, cs) ==
  LET hits == { k \in 1..Len(s) : s[k] \in cs } IN IF hits = {} THEN Len(s) + 1 ELSE Min(hits)

\* new URL(url) does not throw.
Parses(s) == s # <<>> /\ s[1] = "h"

\* urlObj.origin
Origin(s) == SubSeq(s, 1, FirstOf(s, {"/", "?"}) - 1)

\* urlObj.pathname
Pathname(s) ==
  LET from == FirstOf(s, {"/", "?"})
      to == FirstOf(s, {"?"})
  IN IF from > Len(s) \/ s[from] = "?" THEN <<"/">> ELSE SubSeq(s, from, to - 1)

\* url.split('?')[0]
BeforeQuery(s) == SubSeq(s, 1, FirstOf(s, {"?"}) - 1)

\* .replace(/\/$/, ''): one trailing slash removed.
StripTrailingSlash(s) ==
  IF s # <<>> /\ s[Len(s)] = "/" THEN SubSeq(s, 1, Len(s) - 1) ELSE s

normalizeUrl(s) ==
  IF Parses(s) THEN StripTrailingSlash(Origin(s) \o Pathname(s))
  ELSE StripTrailingSlash(BeforeQuery(s))

-----------------------------------------------------------------------------
(* extractEnhancedApiPatterns.  In the url of a request a path segment or a  *)
(* query parameter is one character of the url: "api", "quote", "x=1".       *)

\* The purpose keywords a lower-cased path segment starts with.
SegmentKeywords(seg) ==
  CASE seg = "quote" -> {"quote"}
    [] seg = "swap" -> {"swap"}
    [] seg = "tokens" -> {"token"}
    [] seg = "approve" -> {"approve"}
    [] seg = "balance" -> {"balance"}
    [] seg = "gas" -> {"gas"}
    [] OTHER -> {}

\* urlLower.includes('/' + kw) for one of the keywords kws
UrlHasSegment(u, kws) ==
  \E k \in 1..(Len(u) - 1) :
    u[k] = "/" /\ SegmentKeywords(ToLowerCase(u[k + 1])) \cap kws # {}

\* '/swap' is looked for before '/quote'.
determineEnhancedApiPurpose_Mutant(u) ==
  IF UrlHasSegment(u, {"swap", "execute", "trade"}) THEN "swap"
  ELSE IF UrlHasSegment(u, {"quote", "price", "rate"}) THEN "quote"
  ELSE IF UrlHasSegment(u, {"approve", "allowance", "permit"}) THEN "approve"
  ELSE IF UrlHasSegment(u, {"token", "list", "pairs"}) THEN "token_list"
  ELSE IF UrlHasSegment(u, {"balance", "account"}) THEN "balance"
  ELSE IF UrlHasSegment(u, {"gas", "estimate"}) THEN "gas"
  ELSE "other"

determineEnhancedApiPurpose(u) ==
  IF UrlHasSegment(u, {"quote", "price", "rate"}) THEN "quote"
  ELSE IF UrlHasSegment(u, {"swap", "execute", "trade"}) THEN "swap"
  ELSE IF UrlHasSegment(u, {"approve", "allowance", "permit"}) THEN "approve"
  ELSE IF UrlHasSegment(u, {"token", "list", "pairs"}) THEN "token_list"
  ELSE IF UrlHasSegment(u, {"balance", "account"}) THEN "balance"
  ELSE IF UrlHasSegment(u, {"gas", "estimate"}) THEN "gas"
  ELSE "other"

\* A query parameter's name and value.
ParamKey(tok) == CASE tok = "x=1" -> "x" [] tok = "y=2" -> "y" [] OTHER -> tok
ParamValue(tok) == CASE tok = "x=1" -> "1" [] tok = "y=2" -> "2" [] OTHER -> ""

EmptyObject == [n \in {} |-> ""]

\* extractParams(): searchParams of a url that parses, a later parameter replacing an
\* earlier one of the same name; {} when new URL throws.
extractParams(u) ==
  IF ~Parses(u) THEN EmptyObject
  ELSE LET at == { k \in (FirstOf(u, {"?"}) + 1)..Len(u) : u[k] \notin {"?", "/"} }
           keys == { ParamKey(u[k]) : k \in at }
       IN [n \in keys |-> ParamValue(u[Max({ k \in at : ParamKey(u[k]) = n })])]

NoHeaders == [present |-> FALSE, fields |-> EmptyObject]
NoResponse == [present |-> FALSE, status |-> 0, contentType |-> Absent]

importantHeaders == {"content-type", "authorization", "x-api-key", "referer"}

\* if (!headers) return {};
ReturnsNoHeaders(headers) == ~headers.present

\* The important headers are kept as they are.
sanitizeHeaders_Mutant(headers) ==
  IF ReturnsNoHeaders(headers) THEN EmptyObject
  ELSE [n \in { m \in DOMAIN headers.fields : ToLowerCase(m) \in importantHeaders } |->
          headers.fields[n]]

\* sanitizeHeaders()
sanitizeHeaders(headers) ==
  IF ReturnsNoHeaders(headers) THEN EmptyObject
  ELSE [n \in { m \in DOMAIN headers.fields : ToLowerCase(m) \in importantHeaders } |->
          IF ToLowerCase(n) \in {"authorization", "x-api-key"} THEN "***MASKED***"
          ELSE headers.fields[n]]

\* extractResponsePattern()
extractResponsePattern(request) ==
  [hasResponse |-> request.response.present,
   statusCode |-> IF request.response.present THEN request.response.status ELSE 0,
   contentType |-> request.response.contentType]

\* The key without normalizeUrl().
ApiKey_Mutant(request) == <<request.method, request.url>>

\* `${request.method}_${this.normalizeUrl(url)}`
ApiKey(request) == <<request.method, normalizeUrl(request.url)>>

ApiEndpoint(request) ==
  [url |-> normalizeUrl(request.url),
   method |-> request.method,
   purpose |-> determineEnhancedApiPurpose(request.url),
   params |-> extractParams(request.url),
   headers |-> sanitizeHeaders(request.headers),
   responsePattern |-> extractResponsePattern(request)]

RECURSIVE ApiFrom(_, _, _)
\* The loop over the requests: apiMap after requests k.. were seen, in insertion order.
ApiFrom(requests, k, apiMap) ==
  IF k > Len(requests) THEN apiMap
  ELSE LET key == ApiKey(requests[k])
       IN ApiFrom(requests, k + 1,
                  IF \E i \in DOMAIN apiMap : apiMap[i].key = key THEN apiMap
                  ELSE Append(apiMap, [key |-> key, value |-> ApiEndpoint(requests[k])]))

\* extractEnhancedApiPatterns(): Array.from(apiMap.values())
extractEnhancedApiPatterns(requests) ==
  LET apiMap == ApiFrom(requests, 1, <<>>) IN [i \in DOMAIN apiMap |-> apiMap[i].value]

\* Object.entries(headers) of headers that are undefined: a TypeError.
ApiPatternsRaise(requests) ==
  \E k \in DOMAIN requests :
    ~ReturnsNoHeaders(requests[k].headers) /\ ~requests[k].headers.present

\* The urls, headers and responses of the requests of a Recording.
ApiUrls ==
  { <<"h", "/", "api", "/", "quote", "?", "x=1">>,
    <<"h", "/", "api", "/", "quote", "?", "y=2">>,
    <<"h", "/", "api", "/", "QUOTE">>,
    <<"h", "/", "api", "/", "swap", "/">>,
    <<"h", "/", "api", "/", "swap">>,
    <<"/", "api", "/", "quote", "?", "x=1">> }

HeaderSamples ==
  { NoHeaders,
    [present |-> TRUE,
     fields |-> [n \in {"Authorization", "Accept"} |->
                   IF n = "Authorization" THEN "Bearer t" ELSE "*/*"]] }

\* Headers with secrets: other tokens, other keys, with and without headers that are
\* not important, with and without a content type.
Headers(fields) == [present |-> TRUE, fields |-> fields]

SecretHeaderSamples ==
  { NoHeaders,
    Headers([n \in {"Accept"} |-> "*/*"]),
    Headers([n \in {"Authorization", "Accept"} |->
               IF n = "Authorization" THEN "Bearer t" ELSE "*/*"]),
    Headers([n \in {"Authorization"} |-> "Bearer u"]),
    Headers([n \in {"Authorization", "Content-Type"} |->
               IF n = "Authorization" THEN "Bearer t" ELSE "application/json"]),
    Headers([n \in {"x-api-key", "Content-Type"} |->
               IF n = "x-api-key" THEN "k1" ELSE "application/json"]),
    Headers([n \in {"x-api-key", "Content-Type", "Accept"} |->
               IF n = "x-api-key" THEN "k2"
               ELSE IF n = "Accept" THEN "*/*" ELSE "application/json"]) }

ResponseSamples ==
  { NoResponse, [present |-> TRUE, status |-> 200, contentType |-> "application/json"] }

ApiMethods == {"GET", "POST"}

-----------------------------------------------------------------------------
(* extractEssentialSelectors *)

\* selectorMap.set(role, selector)
MapSet(map, role, selector) ==
  [r \in DOMAIN map \cup {role} |-> IF r = role THEN selector ELSE map[r]]

\* One iteration of the loop of extractEssentialSelectors.
HarvestAction(map, action) ==
  IF ~Truthy(action.selector) \/ ~action.element.present THEN map
  ELSE LET text == ToLowerCase(ElementText(action))
           m1 == IF Includes(text, "select") /\ Includes(text, "token")
                 THEN IF Includes(text, "from") \/ Includes(text, "pay")
                      THEN MapSet(map, "fromTokenButton", action.selector)
                      ELSE IF Includes(text, "to") \/ Includes(text, "receive")
                      THEN MapSet(map, "toTokenButton", action.selector)
                      ELSE map
                 ELSE map
           m2 == IF /\ action.type = "input"
                    /\ isEnhancedAmountField(action)
                    /\ "amountInput" \notin DOMAIN m1
                 THEN MapSet(m1, "amountInput", action.selector) ELSE m1
           m3 == IF isEnhancedSwapButton(ElementText(action))
                 THEN MapSet(m2, "swapButton", action.selector) ELSE m2
       IN IF isEnhancedApproveButton(ElementText(action))
          THEN MapSet(m3, "approveButton", action.selector) ELSE m3

RECURSIVE HarvestFrom(_, _, _)
HarvestFrom(actions, i, map) ==
  IF i > Len(actions) THEN map ELSE HarvestFrom(actions, i + 1, HarvestAction(map, actions[i]))

\* extractEssentialSelectors(actions), on the map the optimizer holds.
extractEssentialSelectors(actions, selectorMap) == HarvestFrom(actions, 1, selectorMap)

\* Controls of a swap page, each of them twice, under two selectors.
SelectorKinds ==
  { [type |-> "click", selector |-> sel, url |-> Absent, value |-> Absent,
     element |-> Element("Swap", "submit"), isAmountInput |-> FALSE] :
      sel \in {"#swap", "#swap-2"} }
  \cup { [type |-> "click", selector |-> sel, url |-> Absent, value |-> Absent,
          element |-> Element("Approve", "submit"), isAmountInput |-> FALSE] :
           sel \in {"#approve", "#approve-2"} }
  \cup { [type |-> "click", selector |-> sel, url |-> Absent, value |-> Absent,
          element |-> Element("Select token", "submit"), isAmountInput |-> FALSE] :
           sel \in {"#to", "#to-2"} }
  \cup { [type |-> "click", selector |-> sel, url |-> Absent, value |-> Absent,
          element |-> Element("Select token to pay", "submit"), isAmountInput |-> FALSE] :
           sel \in {"#from", "#from-2"} }
  \cup { [type |-> "input", selector |-> sel, url |-> Absent, value |-> "10",
          element |-> Element("", "text"), isAmountInput |-> TRUE] :
           sel \in {"#amount", "#amount-2"} }

-----------------------------------------------------------------------------
(* DataOptimizer: its state and optimize() *)

\* The summary the constructor sets.
\* The DEX names the code looks for that occur in the lower-cased text.
DexNamesIn(text) ==
  CASE text = "https://app.uniswap.org" -> {"uniswap"}
    [] text = "https://pancakeswap.finance" -> {"pancakeswap", "pancake"}
    [] text = "https://www.sushi.com" -> {"sushi"}
    [] text = "https://app.1inch.io" -> {"1inch"}
    [] text = "https://raydium.io/uniswap" -> {"raydium", "uniswap"}
    [] text = "uniswap" -> {"uniswap"}
    [] text = "pancake" -> {"pancake"}
    [] text = "sushi" -> {"sushi"}
    [] text = "1inch" -> {"1inch"}
    [] text = "jupiter" -> {"jupiter"}
    [] text = "raydium" -> {"raydium"}
    [] OTHER -> {}

\* The DEX names in apiEndpoints.map(e => e.url.toLowerCase()).join(' ')
DexNamesInEndpoints(endpoints) ==
  UNION { UNION { DexNamesIn(ToLowerCase(endpoints[i].url[k])) : k \in DOMAIN endpoints[i].url } :
            i \in DOMAIN endpoints }

DexClass(dexType, complexity, rate, risk) ==
  [dexType |-> dexType, swapComplexity |-> complexity, estimatedSuccessRate |-> rate,
   riskLevel |-> risk]

\* The summary of the constructor: no dexType yet.
InitialDexClass == DexClass(Absent, "simple", 0, "low")

\* 1inch is looked for first.
detectDexTypeAndComplexity_Mutant(sessionUrl, endpoints) ==
  LET inUrl == DexNamesIn(ToLowerCase(sessionUrl))
      inApi == DexNamesInEndpoints(endpoints)
  IN IF "1inch" \in inUrl \/ "1inch" \in inApi
     THEN DexClass("1inch", "simple", 98, "low")
     ELSE IF "uniswap" \in inUrl \/ "uniswap" \in inApi
     THEN DexClass("Uniswap", "complex", 95, "high")
     ELSE IF "pancakeswap" \in inUrl \/ "pancake" \in inApi
     THEN DexClass("PancakeSwap", "medium", 90, "medium")
     ELSE IF "sushiswap" \in inUrl \/ "sushi" \in inApi
     THEN DexClass("SushiSwap", "medium", 85, "medium")
     ELSE IF "jupiter" \in inUrl \/ "jupiter" \in inApi
     THEN DexClass("Jupiter", "complex", 92, "high")
     ELSE IF "raydium" \in inUrl \/ "raydium" \in inApi
     THEN DexClass("Raydium", "complex", 93, "high")
     ELSE DexClass("Unknown DEX", "simple", 0, "low")

\* detectDexTypeAndComplexity()
detectDexTypeAndComplexity(sessionUrl, endpoints) ==
  LET inUrl == DexNamesIn(ToLowerCase(sessionUrl))
      inApi == DexNamesInEndpoints(endpoints)
  IN IF "uniswap" \in inUrl \/ "uniswap" \in inApi
     THEN DexClass("Uniswap", "complex", 95, "high")
     ELSE IF "pancakeswap" \in inUrl \/ "pancake" \in inApi
     THEN DexClass("PancakeSwap", "medium", 90, "medium")
     ELSE IF "sushiswap" \in inUrl \/ "sushi" \in inApi
     THEN DexClass("SushiSwap", "medium", 85, "medium")
     ELSE IF "1inch" \in inUrl \/ "1inch" \in inApi
     THEN DexClass("1inch", "simple", 98, "low")
     ELSE IF "jupiter" \in inUrl \/ "jupiter" \in inApi
     THEN DexClass("Jupiter", "complex", 92, "high")
     ELSE IF "raydium" \in inUrl \/ "raydium" \in inApi
     THEN DexClass("Raydium", "complex", 93, "high")
     ELSE DexClass("Unknown DEX", "simple", 0, "low")

InitialSummary ==
  [originalActions |-> 0, optimizedActions |-> 0, duplicatesRemoved |-> 0,
   compressionRatio |-> [kind |-> "number", tenths |-> 0], swapDetected |-> FALSE]

NoResultYet ==
  [present |-> FALSE, swapFlow |-> <<>>, apiEndpoints |-> <<>>, summary |-> InitialSummary]

OptInit ==
  /\ recActions = <<>>
  /\ optPc = "ready"
  /\ uniqueActions = <<>>
  /\ swapFlow = <<>>
  /\ summary = InitialSummary
  /\ recNetwork = <<>>
  /\ apiEndpoints = <<>>
  /\ essentialSelectors = EmptyObject
  /\ recUrl = "https://dex/swap"
  /\ dexClass = InitialDexClass
  /\ firstResult = NoResultYet

\* The Recording handed to the constructor, built one action at a time: any sequence of
\* up to MaxActions actions, in any order of timestamps; action i has id i.
AppendAction(kind, ts) ==
  /\ optPc = "ready"
  /\ Len(recActions) < MaxActions
  /\ recActions' = Append(recActions, MkAction(kind, ts, Len(recActions) + 1))
  /\ UNCHANGED <<optPc, uniqueActions, swapFlow, summary, recNetwork, apiEndpoints, essentialSelectors>>
  /\ UNCHANGED <<recUrl, dexClass, firstResult>>
  /\ UNCHANGED <<urlVars, fmVars, wfVars, engVars, wmVars, waVars, niVars, bmVars>>

\* One more network request of the Recording handed to the constructor.
AppendRequest(method, u, headers, response) ==
  /\ optPc = "ready"
  /\ Len(recNetwork) < MaxApiRequests
  /\ recNetwork' = Append(recNetwork, [method |-> method, url |-> u, headers |-> headers,
                                       response |-> response])
  /\ UNCHANGED <<recActions, optPc, uniqueActions, swapFlow, summary, apiEndpoints, essentialSelectors>>
  /\ UNCHANGED <<recUrl, dexClass, firstResult>>
  /\ UNCHANGED <<urlVars, fmVars, wfVars, engVars, wmVars, waVars, niVars, bmVars>>

\* The passes of optimize(), run one after the other with no suspension between them,
\* on what the optimizer holds.
OptimizePasses ==
  /\ LET dedup == removeDuplicates(recActions, summary.duplicatesRemoved)
         flow == extractEnhancedSwapFlow(dedup.unique, swapFlow)
     IN /\ uniqueActions' = dedup.unique
        /\ IF ScanRaises(dedup.unique)
           THEN /\ optPc' = "raised"
                /\ summary' = [summary EXCEPT !.duplicatesRemoved = dedup.removed]
                /\ UNCHANGED <<swapFlow, apiEndpoints, essentialSelectors, dexClass>>
           ELSE IF ApiPatternsRaise(recNetwork)
           THEN /\ optPc' = "raised"
                /\ swapFlow' = flow
                /\ summary' = [summary EXCEPT !.duplicatesRemoved = dedup.removed]
                /\ UNCHANGED <<apiEndpoints, essentialSelectors, dexClass>>
           ELSE /\ optPc' = "done"
                /\ swapFlow' = flow
                /\ apiEndpoints' = extractEnhancedApiPatterns(recNetwork)
                /\ essentialSelectors' =
                     extractEssentialSelectors(dedup.unique, essentialSelectors)
                /\ dexClass' = detectDexTypeAndComplexity(recUrl, apiEndpoints')
                /\ summary' = calculateComprehensiveSummary(
                                 [summary EXCEPT !.duplicatesRemoved = dedup.removed],
                                 recActions, flow)
  /\ UNCHANGED <<recActions, recNetwork, recUrl>>
  /\ UNCHANGED <<urlVars, fmVars, wfVars, engVars, wmVars, waVars, niVars, bmVars>>

\* optimize(), called for the first time on a DataOptimizer.
Optimize ==
  /\ optPc = "ready"
  /\ OptimizePasses
  /\ UNCHANGED firstResult

\* optimize(), called a second time on a DataOptimizer whose first call has returned.
OptimizeAgain ==
  /\ optPc = "done"
  /\ ~firstResult.present
  /\ firstResult' = [present |-> TRUE, swapFlow |-> swapFlow,
                      apiEndpoints |-> apiEndpoints, summary |-> summary]
  /\ OptimizePasses

\* Recordings of clicks on buttons.
ButtonNext ==
  \/ \E kind \in ButtonKinds, ts \in Timestamps : AppendAction(kind, ts)
  \/ Optimize

\* Recordings optimized twice by one DataOptimizer.
AgainNext ==
  \/ \E kind \in ActionKinds, ts \in Timestamps : AppendAction(kind, ts)
  \/ Optimize
  \/ OptimizeAgain

OptNext ==
  \/ \E kind \in ActionKinds, ts \in Timestamps : AppendAction(kind, ts)
  \/ Optimize

\* The action log of the specification's worked example: a click on MAX, an amount typed,
\* a click on Approve, a click on Swap and the same click 50 ms later.  The last three
\* carry no selector.
ExampleLog ==
  << [kind |-> [type |-> "click", selector |-> "#max-btn", url |-> Absent, value |-> Absent,
                element |-> Element("MAX", "submit"), isAmountInput |-> FALSE],
      timestamp |-> 100],
     [kind |-> [type |-> "input", selector |-> "#amount", url |-> Absent, value |-> "10",
                element |-> Element("", "text"), isAmountInput |-> TRUE],
      timestamp |-> 200],
     [kind |-> [type |-> "click", selector |-> Absent, url |-> Absent, value |-> Absent,
                element |-> Element("Approve", "submit"), isAmountInput |-> FALSE],
      timestamp |-> 5100],
     [kind |-> [type |-> "click", selector |-> Absent, url |-> Absent, value |-> Absent,
                element |-> Element("Swap", "submit"), isAmountInput |-> FALSE],
      timestamp |-> 6200],
     [kind |-> [type |-> "click", selector |-> Absent, url |-> Absent, value |-> Absent,
                element |-> Element("Swap", "submit"), isAmountInput |-> FALSE],
      timestamp |-> 6250] >>

\* One more action of a Recording made of the example's actions, in any order and number
\* up to the length of the example.
AppendExampleAction(i) ==
  /\ optPc = "ready"
  /\ Len(recActions) < Len(ExampleLog)
  /\ recActions' = Append(recActions, MkAction(ExampleLog[i].kind, ExampleLog[i].timestamp,
                                               Len(recActions) + 1))
  /\ UNCHANGED <<optPc, uniqueActions, swapFlow, summary, recNetwork, apiEndpoints, essentialSelectors>>
  /\ UNCHANGED <<recUrl, dexClass, firstResult>>
  /\ UNCHANGED <<urlVars, fmVars, wfVars, engVars, wmVars, waVars, niVars, bmVars>>

ExampleNext ==
  \/ \E i \in DOMAIN ExampleLog : AppendExampleAction(i)
  \/ Optimize

\* Recordings with actions and requests: actions with and without an element snapshot,
\* requests with and without headers, urls that parse and do not.
TotalNext ==
  \/ \E kind \in ActionKinds : AppendAction(kind, 0)
  \/ \E u \in {<<"h", "/", "api", "/", "swap">>, <<"/", "api", "/", "quote", "?", "x=1">>},
        headers \in HeaderSamples : AppendRequest("GET", u, headers, NoResponse)
  \/ Optimize

\* Amounts typed into the amount field, and when: up to 4 s apart.
AmountKinds ==
  { [type |-> "input", selector |-> "#amount", url |-> Absent, value |-> v,
     element |-> Element("", "text"), isAmountInput |-> TRUE] : v \in {"10", "20"} }

AmountTimestamps == {0, 1500, 2500, 4000}

\* Recordings of amount inputs only.
AmountNext ==
  \/ \E kind \in AmountKinds, ts \in AmountTimestamps : AppendAction(kind, ts)
  \/ Optimize

\* A click on a token of the token list, a click on the Receive panel and a click on Swap.
DirectionKinds ==
  { [type |-> "click", selector |-> "#eth", url |-> Absent, value |-> Absent,
     element |-> [Element("ETH", "button") EXCEPT !.className = "token-select"],
     isAmountInput |-> FALSE],
    [type |-> "click", selector |-> "#receive", url |-> Absent, value |-> Absent,
     element |-> Element("Receive", "button"), isAmountInput |-> FALSE],
    [type |-> "click", selector |-> "#swap", url |-> Absent, value |-> Absent,
     element |-> Element("Swap", "submit"), isAmountInput |-> FALSE] }

\* One more action of a Recording whose actions are more than the de-duplication
\* window apart, in the order of time.
AppendLaterAction(kind) ==
  /\ optPc = "ready"
  /\ Len(recActions) < MaxDirectionLog
  /\ recActions' = Append(recActions, MkAction(kind, Len(recActions) * (duplicateThreshold + 1),
                                               Len(recActions) + 1))
  /\ UNCHANGED <<optPc, uniqueActions, swapFlow, summary, recNetwork, apiEndpoints, essentialSelectors>>
  /\ UNCHANGED <<recUrl, dexClass, firstResult>>
  /\ UNCHANGED <<urlVars, fmVars, wfVars, engVars, wmVars, waVars, niVars, bmVars>>

\* Recordings of token selections among other clicks.
DirectionNext ==
  \/ \E kind \in DirectionKinds : AppendLaterAction(kind)
  \/ Optimize

\* Recordings of the controls of a swap page.
SelectorNext ==
  \/ \E kind \in SelectorKinds : AppendAction(kind, 0)
  \/ Optimize

\* Urls of two path segments, which match no purpose, one or two.
PurposeUrls ==
  { <<"h", "/", s1, "/", s2>> :
      s1 \in {"api", "swap", "tokens", "gas"},
      s2 \in {"api", "quote", "swap", "approve", "tokens", "balance", "gas"} }

\* Recordings that differ in the paths of their requests.
PurposeNext ==
  \/ \E u \in PurposeUrls : AppendRequest("GET", u, NoHeaders, NoResponse)
  \/ Optimize

\* The urls of sessions on known exchanges and on others.
SessionUrls ==
  { "https://dex/swap", "https://app.uniswap.org", "https://pancakeswap.finance",
    "https://www.sushi.com", "https://app.1inch.io", "https://raydium.io/uniswap" }

\* The urls of requests to the back ends of known exchanges and of others.
DexApiUrls ==
  { <<"h", "/", name, "/", "quote">> :
      name \in {"api", "uniswap", "pancake", "sushi", "1inch", "jupiter", "raydium"} }

\* The url of the Recording handed to the constructor.
RecordingOf(u) ==
  /\ optPc = "ready"
  /\ recNetwork = <<>>
  /\ recUrl' = u
  /\ UNCHANGED <<recActions, optPc, uniqueActions, swapFlow, summary, recNetwork, apiEndpoints,
                 essentialSelectors, dexClass, firstResult>>
  /\ UNCHANGED <<urlVars, fmVars, wfVars, engVars, wmVars, waVars, niVars, bmVars>>

\* Recordings of sessions on one exchange or another.
DexNext ==
  \/ \E u \in SessionUrls : RecordingOf(u)
  \/ \E u \in DexApiUrls : AppendRequest("GET", u, NoHeaders, NoResponse)
  \/ Optimize

\* Recordings that differ in the headers of their requests.
HeaderNext ==
  \/ \E u \in {<<"h", "/", "api", "/", "quote">>, <<"h", "/", "api", "/", "swap">>},
        headers \in SecretHeaderSamples : AppendRequest("GET", u, headers, NoResponse)
  \/ Optimize

\* Recordings that differ in their network requests.
ApiNext ==
  \/ \E method \in ApiMethods, u \in ApiUrls, headers \in HeaderSamples,
        response \in ResponseSamples : AppendRequest(method, u, headers, response)
  \/ Optimize

-----------------------------------------------------------------------------
(* normalizeUrl, applied once and twice to a url *)

UrlInit ==
  /\ url = <<>>
  /\ urlOnce = <<>>
  /\ urlTwice = <<>>
  /\ urlPc = "input"

\* One more character of the url under test.
AppendUrlChar(c) ==
  /\ urlPc = "input"
  /\ c = "h" <=> url = <<>> /\ c = "h"
  /\ Len(url) < MaxUrlLen + (IF Parses(url) THEN 1 ELSE 0)
  /\ url' = Append(url, c)
  /\ UNCHANGED <<urlOnce, urlTwice, urlPc>>
  /\ UNCHANGED <<optVars, fmVars, wfVars, engVars, wmVars, waVars, niVars, bmVars>>

NormalizeOnce ==
  /\ urlPc = "input"
  /\ urlOnce' = normalizeUrl(url)
  /\ urlPc' = "once"
  /\ UNCHANGED <<url, urlTwice>>
  /\ UNCHANGED <<optVars, fmVars, wfVars, engVars, wmVars, waVars, niVars, bmVars>>

NormalizeTwice ==
  /\ urlPc = "once"
  /\ urlTwice' = normalizeUrl(urlOnce)
  /\ urlPc' = "twice"
  /\ UNCHANGED <<url, urlOnce>>
  /\ UNCHANGED <<optVars, fmVars, wfVars, engVars, wmVars, waVars, niVars, bmVars>>

UrlNext ==
  \/ \E c \in UrlChars \cup {"h"} : AppendUrlChar(c)
  \/ NormalizeOnce
  \/ NormalizeTwice


-----------------------------------------------------------------------------
(* FrameManager *)

MainFrameUrl == "https://dex/swap"

FrameUrls == {"about:blank", "https://widget/a", "https://widget/b"}

UrlPatterns == {"widget", "/a", "dex"}

\* frame.url().includes(urlPattern), tabulated for the urls and patterns above.
UrlIncludes(u, pattern) ==
  CASE u = "https://dex/swap" -> pattern \in {"dex"}
    [] u = "https://widget/a" -> pattern \in {"widget", "/a"}
    [] u = "https://widget/b" -> pattern \in {"widget"}
    [] OTHER -> FALSE

MainFrame == [id |-> 0, url |-> MainFrameUrl]

ThePage == [kind |-> "page", id |-> 0]
TheFrame(f) == [kind |-> "frame", id |-> f.id]
Raised == [kind |-> "raised", id |-> 0]
NoResult == [kind |-> "none", id |-> 0]

\* updateFrameHierarchy(): the registry rebuilt from page.frames(), a later frame
\* replacing an earlier one of the same url.
updateFrameHierarchy(fs) ==
  LET urls == { fs[k].url : k \in 2..Len(fs) }
  IN [u \in urls |-> fs[Max({ k \in 2..Len(fs) : fs[k].url = u })].id]

\* this.frameHierarchy.delete(url)
DeleteKey(map, u) == [k \in DOMAIN map \ {u} |-> map[k]]

\* A probe of a frame without its try/catch.
ProbeCaught_Mutant(outcome) == outcome

\* try { element = await frame.$(selector) } catch {}: a probe that throws finds nothing.
ProbeCaught(outcome) == IF outcome = "throws" THEN "miss" ELSE outcome

RECURSIVE DetectFrom(_, _, _)
DetectFrom(fs, probes, j) ==
  IF j > Len(fs) THEN ThePage
  ELSE LET found == ProbeCaught(probes[j])
       IN IF found = "match" THEN TheFrame(fs[j])
          ELSE IF found = "throws" THEN Raised
          ELSE DetectFrom(fs, probes, j + 1)

\* detectFrameContext(selector); probes[j] is what the probe of fs[j] does, fs[1]
\* being the main frame, which page.$ probes and the loop skips.
detectFrameContext(fs, probes) ==
  LET root == ProbeCaught(probes[1])
  IN IF root = "match" THEN ThePage
     ELSE IF root = "throws" THEN Raised
     ELSE DetectFrom(fs, probes, 2)

ProbeOutcomes == {"match", "miss", "throws"}

NoInfoCall == [present |-> FALSE, failing |-> {}]

\* A frame whose evaluation throws leaves no entry.
InfoAfterThrow_Mutant(f) == <<>>

\* catch { framesInfo.push({ url: frame.url(), isMainFrame, error: true }) }
InfoAfterThrow(f) == <<[url |-> f.url, isMainFrame |-> f.id = MainFrame.id, error |-> TRUE]>>

\* framesInfo.push({ ...info, isMainFrame, name }): window.location.href is the url of
\* the frame's document.
InfoOf(f) == <<[url |-> f.url, isMainFrame |-> f.id = MainFrame.id, error |-> FALSE]>>

\* The loop of getAllFramesInfo() over page.frames() from frame j on, frame.evaluate
\* throwing for the frames whose id is in failing.
RECURSIVE getAllFramesInfo(_, _, _)
getAllFramesInfo(fs, failing, j) ==
  IF j > Len(fs) THEN <<>>
  ELSE (IF fs[j].id \in failing THEN InfoAfterThrow(fs[j]) ELSE InfoOf(fs[j]))
         \o getAllFramesInfo(fs, failing, j + 1)

FrameInit ==
  /\ frames = <<MainFrame>>
  /\ frameHierarchy = <<>>
  /\ currentFrame = ThePage
  /\ detectProbes = <<>>
  /\ detectResult = NoResult
  /\ framesInfo = <<>>
  /\ infoCall = NoInfoCall
  /\ wfPc = "idle"
  /\ wfPattern = ""
  /\ wfTimeout = 0
  /\ wfElapsed = 0
  /\ wfLiveMatch = FALSE
  /\ wfResult = MainFrame

FreeFrameIds == (1..MaxFrames) \ { frames[k].id : k \in 1..Len(frames) }

\* The record of the last call of detectFrameContext and of getAllFramesInfo, what it
\* was given and what it returned, is kept until the frames change.
ForgetDetectCall ==
  /\ detectProbes' = <<>>
  /\ detectResult' = NoResult
  /\ framesInfo' = <<>>
  /\ infoCall' = NoInfoCall

\* The browser attaches a frame; the 'frameattached' handler runs.
FrameAttached(u) ==
  /\ FreeFrameIds # {}
  /\ frames' = Append(frames, [id |-> Min(FreeFrameIds), url |-> u])
  /\ frameHierarchy' = updateFrameHierarchy(frames')
  /\ ForgetDetectCall
  /\ UNCHANGED currentFrame
  /\ UNCHANGED <<optVars, urlVars, wfVars, engVars, wmVars, waVars, niVars, bmVars>>

\* The browser detaches the embedded frame frames[k]; the 'framedetached' handler runs.
FrameDetached(k) ==
  /\ k \in 2..Len(frames)
  /\ frames' = SubSeq(frames, 1, k - 1) \o SubSeq(frames, k + 1, Len(frames))
  /\ frameHierarchy' = DeleteKey(frameHierarchy, frames[k].url)
  /\ ForgetDetectCall
  /\ UNCHANGED currentFrame
  /\ UNCHANGED <<optVars, urlVars, wfVars, engVars, wmVars, waVars, niVars, bmVars>>

\* The embedded frame frames[k] navigates to u; the 'framenavigated' handler runs.
FrameNavigated(k, u) ==
  /\ k \in 2..Len(frames)
  /\ frames[k].url # u
  /\ frames' = [frames EXCEPT ![k].url = u]
  /\ frameHierarchy' = updateFrameHierarchy(frames')
  /\ ForgetDetectCall
  /\ UNCHANGED currentFrame
  /\ UNCHANGED <<optVars, urlVars, wfVars, engVars, wmVars, waVars, niVars, bmVars>>

\* A call of detectFrameContext(selector), each frame answering the probe in some way.
DetectFrameContext(probes) ==
  /\ detectProbes' = [j \in 1..Len(frames) |-> [id |-> frames[j].id, outcome |-> probes[j]]]
  /\ detectResult' = detectFrameContext(frames, probes)
  /\ currentFrame' = IF detectResult'.kind = "frame" THEN detectResult' ELSE currentFrame
  /\ UNCHANGED <<frames, frameHierarchy, framesInfo, infoCall>>
  /\ UNCHANGED <<optVars, urlVars, wfVars, engVars, wmVars, waVars, niVars, bmVars>>

\* A call of getAllFramesInfo(), frame.evaluate throwing for the frames in failing.
GetAllFramesInfo(failing) ==
  /\ framesInfo' = getAllFramesInfo(frames, failing, 1)
  /\ infoCall' = [present |-> TRUE, failing |-> failing]
  /\ UNCHANGED <<frames, frameHierarchy, currentFrame, detectProbes, detectResult>>
  /\ UNCHANGED <<optVars, urlVars, wfVars, engVars, wmVars, waVars, niVars, bmVars>>

\* Some live frame's url contains the pattern.
LiveMatch(fs, pattern) == \E k \in 1..Len(fs) : UrlIncludes(fs[k].url, pattern)

\* The frames a poll of findFrameByUrl matches, in page.frames() order.
Matching_Mutant(fs, pattern) == { k \in 2..Len(fs) : UrlIncludes(fs[k].url, pattern) }

\* findFrameByUrl(urlPattern): every frame of page.frames() is tried, the main one too.
Matching(fs, pattern) == { k \in 1..Len(fs) : UrlIncludes(fs[k].url, pattern) }

PollInterval == 100

WaitForFrameTimeouts == {200, 250}

\* waitForFrame(urlPattern, timeout) is called: startTime = Date.now().
WaitForFrameCall(pattern, timeout) ==
  /\ wfPc = "idle"
  /\ wfPc' = "check"
  /\ wfPattern' = pattern
  /\ wfTimeout' = timeout
  /\ wfElapsed' = 0
  /\ UNCHANGED <<wfLiveMatch, wfResult>>
  /\ UNCHANGED <<optVars, urlVars, fmVars, engVars, wmVars, waVars, niVars, bmVars>>

\* The loop test and one poll: the frame is returned, the loop sleeps, or, the timeout
\* being reached, null is returned.
WaitForFramePoll ==
  /\ wfPc = "check"
  /\ IF wfElapsed < wfTimeout
     THEN /\ wfLiveMatch' = LiveMatch(frames, wfPattern)
          /\ IF Matching(frames, wfPattern) # {}
             THEN /\ wfPc' = "found"
                  /\ wfResult' = frames[Min(Matching(frames, wfPattern))]
             ELSE /\ wfPc' = "sleep"
                  /\ UNCHANGED wfResult
     ELSE /\ wfPc' = "null"
          /\ UNCHANGED <<wfLiveMatch, wfResult>>
  /\ UNCHANGED <<wfPattern, wfTimeout, wfElapsed>>
  /\ UNCHANGED <<optVars, urlVars, fmVars, engVars, wmVars, waVars, niVars, bmVars>>

\* await this.delay(100) is over.
WaitForFrameWake ==
  /\ wfPc = "sleep"
  /\ wfElapsed' = wfElapsed + PollInterval
  /\ wfPc' = "check"
  /\ UNCHANGED <<wfPattern, wfTimeout, wfLiveMatch, wfResult>>
  /\ UNCHANGED <<optVars, urlVars, fmVars, engVars, wmVars, waVars, niVars, bmVars>>

\* Frame events reach the handlers while no poll runs: a poll has no suspension in it.
FrameEvent(urls) ==
  /\ wfPc # "check"
  /\ \/ \E u \in urls : FrameAttached(u)
     \/ \E k \in 2..Len(frames) : FrameDetached(k)
     \/ \E k \in 2..Len(frames), u \in urls : FrameNavigated(k, u)

\* The urls of the embedded frames the probes are tried on.
WidgetUrls == {"https://widget/a", "https://widget/b"}

FrameNext ==
  \/ FrameEvent(WidgetUrls)
  \/ \E probes \in [1..Len(frames) -> ProbeOutcomes] : DetectFrameContext(probes)

\* Snapshots of the frames, taken between frame events.
SnapshotNext ==
  \/ FrameEvent(FrameUrls)
  \/ \E failing \in SUBSET { frames[k].id : k \in 1..Len(frames) } :
       GetAllFramesInfo(failing)

WaitFrameNext ==
  \/ FrameEvent(FrameUrls)
  \/ \E pattern \in UrlPatterns, timeout \in WaitForFrameTimeouts :
       WaitForFrameCall(pattern, timeout)
  \/ WaitForFramePoll
  \/ WaitForFrameWake



-----------------------------------------------------------------------------
(* RecorderEngine, with the page's documents and the engine's caller.  The methods
   are public and take no precondition; recordSwap calls startRecording, waitForStop
   and stopRecording in that order, after navigating the page. *)

\* A document: how many instrumentation scripts ran in it (each adds its listeners),
\* window.__recordedActions, and window.__recordingStopped.
FreshDoc(scripts) == [listeners |-> scripts, buffer |-> <<>>, stopped |-> FALSE]

RequestSamples ==
  { [url |-> "https://dex/api/quote", method |-> "GET"],
    [url |-> "https://dex/logo.png", method |-> "GET"],
    [url |-> "https://dex/rpc", method |-> "POST"] }

\* The same and a token list served as JSON.
RelevanceSamples ==
  RequestSamples \cup {[url |-> "https://dex/tokens.json", method |-> "GET"]}

\* url.includes(kw), tabulated for the urls above.
RequestUrlIncludes(u, kw) ==
  CASE u = "https://dex/api/quote" -> kw \in {"/api/", "/quote"}
    [] u = "https://dex/logo.png" -> kw \in {".png"}
    [] u = "https://dex/tokens.json" -> kw \in {"/token", ".json", ".js"}
    [] OTHER -> FALSE

\* The relevance test of the 'request' handler.
IsRelevantRequest(req) ==
  /\ \/ \E kw \in {"/api/", "/swap", "/quote", "/transaction", "/token", "/price",
                   "/liquidity", "/pool", ".json", "/v1/", "/v2/", "/v3/"} :
          RequestUrlIncludes(req.url, kw)
     \/ req.method = "POST"
     \/ req.method = "PUT"
  /\ \A kw \in {".png", ".jpg", ".css", ".js", "font", "favicon"} :
       ~RequestUrlIncludes(req.url, kw)

\* The handler with a catch block that does not continue the request.
HandleRequest_Mutant(rec, req, fault) ==
  IF ~rec THEN [continued |-> TRUE, pushed |-> FALSE]
  ELSE IF fault = "beforePush" THEN [continued |-> FALSE, pushed |-> FALSE]
  ELSE IF fault = "afterPush" THEN [continued |-> FALSE, pushed |-> IsRelevantRequest(req)]
  ELSE [continued |-> TRUE, pushed |-> IsRelevantRequest(req)]

\* One run of the 'request' handler: whether it called request.continue() and whether it
\* pushed the request.  fault says where the try block throws, if it does: before the
\* push (reading the request) or after it (logging a relevant request).
HandleRequest(rec, req, fault) ==
  IF ~rec THEN [continued |-> TRUE, pushed |-> FALSE]
  ELSE IF fault = "beforePush" THEN [continued |-> TRUE, pushed |-> FALSE]
  ELSE IF fault = "afterPush" THEN [continued |-> TRUE, pushed |-> IsRelevantRequest(req)]
  ELSE [continued |-> TRUE, pushed |-> IsRelevantRequest(req)]

RequestFaults == {"none", "beforePush", "afterPush"}

NoRequest == [handlerRuns |-> 0, continues |-> 0, aborts |-> 0, recording |-> FALSE,
              relevant |-> FALSE, fault |-> "none", url |-> "", method |-> "",
              pushed |-> FALSE]

\* n copies of x appended to seq.
RECURSIVE AppendCopies(_, _, _)
AppendCopies(seq, x, n) == IF n = 0 THEN seq ELSE AppendCopies(Append(seq, x), x, n - 1)

\* shouldCleanupMemory()
shouldCleanupMemory(t, last, nActions, nNetwork) ==
  \/ t - last > 300000
  \/ nActions > 10000
  \/ nNetwork > 5000

\* The oldest entries are kept.
TrimTo_Mutant(seq, limit, keepCount) ==
  IF Len(seq) > limit THEN SubSeq(seq, 1, keepCount) ELSE seq

\* The trims of cleanupMemory(): seq.slice(-keepCount) when seq is longer than limit.
TrimTo(seq, limit, keepCount) ==
  IF Len(seq) > limit THEN SubSeq(seq, Len(seq) - keepCount + 1, Len(seq)) ELSE seq

RECURSIVE ConcatBuffers(_, _)
ConcatBuffers(ds, ids) ==
  IF ids = {} THEN <<>>
  ELSE ds[Min(ids)].buffer \o ConcatBuffers(ds, ids \ {Min(ids)})

\* The actions drained from the frames, in page.frames() order (the main frame first).
DrainFrames(ds) == ConcatBuffers(ds, DOMAIN ds)

\* The loop ends at the frame whose evaluation throws.
AfterFailedFrame_Mutant(rest) == <<>>

\* catch { }: the loop goes on with the next frame.
AfterFailedFrame(rest) == rest

\* The loop of stopRecording over page.frames() when frame.evaluate throws for the
\* frames in failing.
RECURSIVE DrainFramesFrom(_, _, _)
DrainFramesFrom(ds, ids, failing) ==
  IF ids = {} THEN <<>>
  ELSE LET f == Min(ids)
       IN IF f \in failing
          THEN AfterFailedFrame(DrainFramesFrom(ds, ids \ {f}, failing))
          ELSE ds[f].buffer \o DrainFramesFrom(ds, ids \ {f}, failing)

\* pageActions.sort(...) and pageActions.forEach(action => this.actions.push({...,
\* timestamp: action.timestamp - this.startTime, ...}))
MergeActions(acts, pageActions, start) ==
  LET sorted == SortByTimestamp(pageActions)
  IN acts \o [k \in 1..Len(sorted) |->
                [type |-> sorted[k].type, timestamp |-> sorted[k].timestamp - start]]

\* this.actions = []; this.networkRequests = []: the arrays of session n are new ones.
FreshRefs(n) == [actions |-> 2 * n + 1, network |-> 2 * n + 2]

\* No call of handleRecordingError yet.
NoFault ==
  [present |-> FALSE, context |-> "none", before |-> 0, after |-> 0, recording |-> FALSE,
   recovery |-> "none", outcome |-> "none"]

\* The probes of setupPreRecording.
PreSessionProbes ==
  {"detectChainInfo", "getBalanceInfo", "getSwapSettings", "validateRecordingReadiness"}

\* The setup steps of startRecording after setupPreRecording.
SetupSteps ==
  {"setRequestInterception", "setupEnhancedListeners", "waitAfterAction",
   "injectRecordingUI"}

\* setupPreRecording without its try/catch.
PreRecordingRaises_Mutant(failing) == failing \cap PreSessionProbes # {}

\* setupPreRecording(): whatever a probe raises is caught and logged.
PreRecordingRaises(failing) == FALSE

\* How startRecording ends when the steps in failing raise where they are reached:
\* raised to the caller or returned, the recording flag, the 'request' handlers, the
\* new-document scripts and the memory timers it has registered, and whether its
\* listener setup called handleRecordingError.
startRecording(failing) ==
  IF PreRecordingRaises(failing) \/ "setRequestInterception" \in failing
  THEN [raised |-> TRUE, recording |-> FALSE, handlers |-> 0, scripts |-> 0,
        timers |-> 0, listenerFault |-> FALSE]
  ELSE LET listenerFault == "setupEnhancedListeners" \in failing
           scripts == IF listenerFault THEN 0 ELSE 1
       IN IF "waitAfterAction" \in failing
          THEN [raised |-> TRUE, recording |-> FALSE, handlers |-> 1,
                scripts |-> scripts, timers |-> 0, listenerFault |-> listenerFault]
          ELSE [raised |-> FALSE, recording |-> TRUE, handlers |-> 1,
                scripts |-> scripts, timers |-> 1, listenerFault |-> listenerFault]

NoStartCall ==
  [present |-> FALSE, failing |-> {}, raised |-> FALSE, recording |-> FALSE,
   handlers |-> 0, scripts |-> 0]

StartCallOf(failing, end) ==
  [present |-> TRUE, failing |-> failing, raised |-> end.raised,
   recording |-> end.recording, handlers |-> end.handlers, scripts |-> end.scripts]

EngInit ==
  /\ recording = FALSE
  /\ actionsRef = 1
  /\ netRef = 2
  /\ heap = [r \in {1, 2} |-> <<>>]
  /\ startTime = 0
  /\ now = 0
  /\ newDocScripts = 0
  /\ requestHandlers = 0
  /\ navHandlers = 0
  /\ memoryTimers = 0
  /\ lastCleanup = 0
  /\ docs = [f \in {0} |-> FreshDoc(0)]
  /\ callerPc = "idle"
  /\ sessions = 0
  /\ returned = <<>>
  /\ reqLog = NoRequest
  /\ errorCount = 0
  /\ retryPending = FALSE
  /\ lastFault = NoFault
  /\ drainFailed = {}
  /\ startCall = NoStartCall

\* Time passes.
Tick ==
  /\ now < MaxTicks
  /\ now' = now + 1
  /\ UNCHANGED <<recording, actionsRef, netRef, heap, startTime, newDocScripts,
                 requestHandlers, navHandlers, memoryTimers, lastCleanup, docs, callerPc,
                 sessions, returned, reqLog>>
  /\ UNCHANGED <<errorCount, retryPending, lastFault>>
  /\ UNCHANGED <<drainFailed, startCall>>
  /\ UNCHANGED <<optVars, urlVars, fmVars, wfVars, wmVars, waVars, niVars, bmVars>>

\* The 'framenavigated' handlers of setupEnhancedListeners, for a main-frame navigation:
\* each pushes a navigate action while recording.
PushNavigations(h) ==
  IF recording
  THEN [h EXCEPT ![actionsRef] =
          AppendCopies(@, [type |-> "navigate", timestamp |-> now - startTime], navHandlers)]
  ELSE h

\* startRecording(name, url), every step of it succeeding.
StartRecording ==
  /\ callerPc = "idle"
  /\ sessions < MaxSessions
  /\ recording' = TRUE
  /\ sessions' = sessions + 1
  /\ actionsRef' = FreshRefs(sessions').actions
  /\ netRef' = FreshRefs(sessions').network
  /\ heap' = [r \in DOMAIN heap \cup {actionsRef', netRef'} |->
                IF r \in {actionsRef', netRef'} THEN <<>> ELSE heap[r]]
  /\ startTime' = now
  /\ requestHandlers' = requestHandlers + 1
  /\ newDocScripts' = newDocScripts + 1
  /\ navHandlers' = navHandlers + 1
  /\ memoryTimers' = memoryTimers + 1
  /\ errorCount' = 0
  /\ startCall' = StartCallOf({}, startRecording({}))
  /\ UNCHANGED <<now, lastCleanup, docs, callerPc, returned, reqLog, retryPending, lastFault>>
  /\ UNCHANGED <<drainFailed>>
  /\ UNCHANGED <<optVars, urlVars, fmVars, wfVars, wmVars, waVars, niVars, bmVars>>

\* The main frame navigates (navigateTo of the driver, a link, the history API): to a
\* new document, which ends the embedded frames, or within its document, which keeps
\* everything.
MainFrameNavigated(sameDocument) ==
  /\ Len(heap[actionsRef]) + navHandlers <= MaxBuffer
  /\ docs' = IF sameDocument THEN docs ELSE [f \in {0} |-> FreshDoc(newDocScripts)]
  /\ heap' = PushNavigations(heap)
  /\ UNCHANGED <<recording, actionsRef, netRef, startTime, now, newDocScripts,
                 requestHandlers, navHandlers, memoryTimers, lastCleanup, callerPc,
                 sessions, returned, reqLog>>
  /\ UNCHANGED <<errorCount, retryPending, lastFault>>
  /\ UNCHANGED <<drainFailed, startCall>>
  /\ UNCHANGED <<optVars, urlVars, fmVars, wfVars, wmVars, waVars, niVars, bmVars>>

\* An embedded frame is attached: its document runs the registered scripts, and the
\* 'frameattached' handler makes sure its buffer exists.
EmbeddedFrameAttached ==
  /\ 1 \notin DOMAIN docs
  /\ docs' = [f \in {0, 1} |-> IF f = 1 THEN FreshDoc(newDocScripts) ELSE docs[f]]
  /\ UNCHANGED <<recording, actionsRef, netRef, heap, startTime, now, newDocScripts,
                 requestHandlers, navHandlers, memoryTimers, lastCleanup, callerPc,
                 sessions, returned, reqLog>>
  /\ UNCHANGED <<errorCount, retryPending, lastFault>>
  /\ UNCHANGED <<drainFailed, startCall>>
  /\ UNCHANGED <<optVars, urlVars, fmVars, wfVars, wmVars, waVars, niVars, bmVars>>

\* A click, an input, a submit or a wallet request in the document of frame f: each set
\* of listeners that is active there pushes one raw action, stamped Date.now().
UserEvent(f, type) ==
  /\ f \in DOMAIN docs
  /\ docs[f].listeners > 0
  /\ ~docs[f].stopped
  /\ Len(docs[f].buffer) + docs[f].listeners <= MaxBuffer
  /\ docs' = [docs EXCEPT ![f].buffer =
                AppendCopies(@, [type |-> type, timestamp |-> now], docs[f].listeners)]
  /\ UNCHANGED <<recording, actionsRef, netRef, heap, startTime, now, newDocScripts,
                 requestHandlers, navHandlers, memoryTimers, lastCleanup, callerPc,
                 sessions, returned, reqLog>>
  /\ UNCHANGED <<errorCount, retryPending, lastFault>>
  /\ UNCHANGED <<drainFailed, startCall>>
  /\ UNCHANGED <<optVars, urlVars, fmVars, wfVars, wmVars, waVars, niVars, bmVars>>

\* The operator clicks STOP RECORDING in the injected panel of the main document.
OperatorClicksStop ==
  /\ recording
  /\ ~docs[0].stopped
  /\ docs' = [docs EXCEPT ![0].stopped = TRUE]
  /\ UNCHANGED <<recording, actionsRef, netRef, heap, startTime, now, newDocScripts,
                 requestHandlers, navHandlers, memoryTimers, lastCleanup, callerPc,
                 sessions, returned, reqLog>>
  /\ UNCHANGED <<errorCount, retryPending, lastFault>>
  /\ UNCHANGED <<drainFailed, startCall>>
  /\ UNCHANGED <<optVars, urlVars, fmVars, wfVars, wmVars, waVars, niVars, bmVars>>

\* The page issues a request: every registered 'request' handler runs on it.
OnRequest(req, fault) ==
  /\ requestHandlers > 0
  /\ LET run == HandleRequest(recording, req, fault)
         pushes == IF run.pushed THEN requestHandlers ELSE 0
     IN /\ Len(heap[netRef]) + pushes <= MaxRequests * requestHandlers
        /\ heap' = [heap EXCEPT ![netRef] =
                      AppendCopies(@, [url |-> req.url, method |-> req.method,
                                       timestamp |-> now - startTime], pushes)]
        /\ reqLog' = [handlerRuns |-> requestHandlers,
                      continues |-> IF run.continued THEN requestHandlers ELSE 0,
                      aborts |-> 0, recording |-> recording,
                      relevant |-> IsRelevantRequest(req), fault |-> fault,
                      url |-> req.url, method |-> req.method, pushed |-> run.pushed]
  /\ UNCHANGED <<recording, actionsRef, netRef, startTime, now, newDocScripts,
                 requestHandlers, navHandlers, memoryTimers, lastCleanup, docs, callerPc,
                 sessions, returned>>
  /\ UNCHANGED <<errorCount, retryPending, lastFault>>
  /\ UNCHANGED <<drainFailed, startCall>>
  /\ UNCHANGED <<optVars, urlVars, fmVars, wfVars, wmVars, waVars, niVars, bmVars>>

\* One interval of startMemoryMonitoring fires.
MemoryGuardTick ==
  /\ memoryTimers > 0
  /\ IF ~recording
     THEN /\ memoryTimers' = memoryTimers - 1
          /\ UNCHANGED <<heap, actionsRef, netRef, lastCleanup>>
     ELSE /\ UNCHANGED memoryTimers
          /\ IF shouldCleanupMemory(now, lastCleanup, Len(heap[actionsRef]), Len(heap[netRef]))
             THEN \* the trimmed arrays are new ones (slice); they take the place of
                  \* the old ones, which nothing else refers to while recording
                  /\ heap' = [heap EXCEPT ![actionsRef] = TrimTo(@, 5000, 3000),
                                          ![netRef] = TrimTo(@, 3000, 2000)]
                  /\ lastCleanup' = now
                  /\ UNCHANGED <<actionsRef, netRef>>
             ELSE UNCHANGED <<heap, actionsRef, netRef, lastCleanup>>
  /\ UNCHANGED <<recording, startTime, now, newDocScripts, requestHandlers, navHandlers,
                 docs, callerPc, sessions, returned, reqLog>>
  /\ UNCHANGED <<errorCount, retryPending, lastFault>>
  /\ UNCHANGED <<drainFailed, startCall>>
  /\ UNCHANGED <<optVars, urlVars, fmVars, wfVars, wmVars, waVars, niVars, bmVars>>

\* The interval of startMemoryMonitoring.
GuardIntervalMs == 30000

\* The actions and the requests a busy page adds within one interval of the memory guard.
ActionBursts == {0, 5001}

NetworkBursts == {0, 3001}

\* seq with n more entries, each entry standing for itself by its serial number in
\* the session.
LastSerial(seq) == IF seq = <<>> THEN 0 ELSE seq[Len(seq)]

SerialRun(base, n) == [k \in 1..n |-> base + k]

PushBurst(seq, n) == seq \o SerialRun(LastSerial(seq), n)

\* One interval of the memory guard passes while the session records and no cleanup is
\* due; the capture handlers push nActions actions and nNetwork requests meanwhile.
GuardIntervalPasses(nActions, nNetwork) ==
  /\ recording
  /\ ~shouldCleanupMemory(now, lastCleanup, Len(heap[actionsRef]), Len(heap[netRef]))
  /\ now < MaxIntervals * GuardIntervalMs
  /\ now' = now + GuardIntervalMs
  /\ heap' = [heap EXCEPT ![actionsRef] = PushBurst(@, nActions),
                          ![netRef] = PushBurst(@, nNetwork)]
  /\ UNCHANGED <<recording, actionsRef, netRef, startTime, newDocScripts, requestHandlers,
                 navHandlers, memoryTimers, lastCleanup, docs, callerPc, sessions, returned,
                 reqLog>>
  /\ UNCHANGED <<errorCount, retryPending, lastFault>>
  /\ UNCHANGED <<drainFailed, startCall>>
  /\ UNCHANGED <<optVars, urlVars, fmVars, wfVars, wmVars, waVars, niVars, bmVars>>

\* A quiet stretch of the session: nothing is pushed for k intervals of the memory
\* guard, the first at which a cleanup is due.
QuietUntilCleanupIsDue(k) ==
  /\ recording
  /\ now < MaxIntervals * GuardIntervalMs
  /\ shouldCleanupMemory(now + k * GuardIntervalMs, lastCleanup,
                         Len(heap[actionsRef]), Len(heap[netRef]))
  /\ \A j \in 0..(k - 1) :
       ~shouldCleanupMemory(now + j * GuardIntervalMs, lastCleanup,
                            Len(heap[actionsRef]), Len(heap[netRef]))
  /\ now' = now + k * GuardIntervalMs
  /\ UNCHANGED <<recording, actionsRef, netRef, heap, startTime, newDocScripts,
                 requestHandlers, navHandlers, memoryTimers, lastCleanup, docs, callerPc,
                 sessions, returned, reqLog>>
  /\ UNCHANGED <<errorCount, retryPending, lastFault>>
  /\ UNCHANGED <<drainFailed, startCall>>
  /\ UNCHANGED <<optVars, urlVars, fmVars, wfVars, wmVars, waVars, niVars, bmVars>>

\* waitForStop() is called: the 500 ms interval is set.
WaitForStopCall ==
  /\ callerPc = "idle"
  /\ callerPc' = "armed"
  /\ UNCHANGED <<recording, actionsRef, netRef, heap, startTime, now, newDocScripts,
                 requestHandlers, navHandlers, memoryTimers, lastCleanup, docs, sessions,
                 returned, reqLog>>
  /\ UNCHANGED <<errorCount, retryPending, lastFault>>
  /\ UNCHANGED <<drainFailed, startCall>>
  /\ UNCHANGED <<optVars, urlVars, fmVars, wfVars, wmVars, waVars, niVars, bmVars>>

\* The interval fires: the callback asks the page for window.__recordingStopped.
WaitForStopTimer ==
  /\ callerPc = "armed"
  /\ callerPc' = "polling"
  /\ UNCHANGED <<recording, actionsRef, netRef, heap, startTime, now, newDocScripts,
                 requestHandlers, navHandlers, memoryTimers, lastCleanup, docs, sessions,
                 returned, reqLog>>
  /\ UNCHANGED <<errorCount, retryPending, lastFault>>
  /\ UNCHANGED <<drainFailed, startCall>>
  /\ UNCHANGED <<optVars, urlVars, fmVars, wfVars, wmVars, waVars, niVars, bmVars>>

\* The page answers, or the evaluation throws: the callback clears the interval and
\* goes on to resolve, or leaves it for the next firing.
WaitForStopPoll(throws) ==
  /\ callerPc = "polling"
  /\ callerPc' = IF throws
                 THEN IF ~recording THEN "idle" ELSE "armed"
                 ELSE IF docs[0].stopped THEN "settling" ELSE "armed"
  /\ UNCHANGED <<recording, actionsRef, netRef, heap, startTime, now, newDocScripts,
                 requestHandlers, navHandlers, memoryTimers, lastCleanup, docs, sessions,
                 returned, reqLog>>
  /\ UNCHANGED <<errorCount, retryPending, lastFault>>
  /\ UNCHANGED <<drainFailed, startCall>>
  /\ UNCHANGED <<optVars, urlVars, fmVars, wfVars, wmVars, waVars, niVars, bmVars>>

\* await this.delay(500) is over: waitForStop resolves.
WaitForStopSettled ==
  /\ callerPc = "settling"
  /\ callerPc' = "idle"
  /\ UNCHANGED <<recording, actionsRef, netRef, heap, startTime, now, newDocScripts,
                 requestHandlers, navHandlers, memoryTimers, lastCleanup, docs, sessions,
                 returned, reqLog>>
  /\ UNCHANGED <<errorCount, retryPending, lastFault>>
  /\ UNCHANGED <<drainFailed, startCall>>
  /\ UNCHANGED <<optVars, urlVars, fmVars, wfVars, wmVars, waVars, niVars, bmVars>>

\* stopRecording(): the frames are drained, the page actions sorted and pushed onto
\* this.actions, and the Recording, which holds the engine's two arrays, is returned.
StopRecording ==
  /\ callerPc = "idle"
  /\ Len(returned) < MaxSessions
  /\ recording' = FALSE
  /\ heap' = [heap EXCEPT ![actionsRef] = MergeActions(@, DrainFrames(docs), startTime)]
  /\ returned' = Append(returned, [actionsRef |-> actionsRef, netRef |-> netRef,
                                   actions |-> heap'[actionsRef],
                                   networkRequests |-> heap'[netRef]])
  /\ UNCHANGED <<actionsRef, netRef, startTime, now, newDocScripts, requestHandlers,
                 navHandlers, memoryTimers, lastCleanup, docs, callerPc, sessions, reqLog>>
  /\ UNCHANGED <<errorCount, retryPending, lastFault>>
  /\ drainFailed' = {}
  /\ UNCHANGED startCall
  /\ UNCHANGED <<optVars, urlVars, fmVars, wfVars, wmVars, waVars, niVars, bmVars>>

\* stopRecording() during which frame.evaluate throws for the frames in failing (a
\* frame that was detached, a document that is being replaced).
StopRecordingFramesFail(failing) ==
  /\ callerPc = "idle"
  /\ Len(returned) < MaxSessions
  /\ failing # {}
  /\ recording' = FALSE
  /\ heap' = [heap EXCEPT ![actionsRef] =
                MergeActions(@, DrainFramesFrom(docs, DOMAIN docs, failing), startTime)]
  /\ returned' = Append(returned, [actionsRef |-> actionsRef, netRef |-> netRef,
                                   actions |-> heap'[actionsRef],
                                   networkRequests |-> heap'[netRef]])
  /\ drainFailed' = failing
  /\ UNCHANGED startCall
  /\ UNCHANGED <<actionsRef, netRef, startTime, now, newDocScripts, requestHandlers,
                 navHandlers, memoryTimers, lastCleanup, docs, callerPc, sessions, reqLog>>
  /\ UNCHANGED <<errorCount, retryPending, lastFault>>
  /\ UNCHANGED <<optVars, urlVars, fmVars, wfVars, wmVars, waVars, niVars, bmVars>>

maxErrors == 10

\* The ceiling is passed, not reached.
AtCeiling_Mutant(count) == count > maxErrors

\* if (this.errorCount >= this.maxErrors)
AtCeiling(count) == count >= maxErrors

\* The recovery handleRecordingError attempts for the context.
RecoveryFor(context) ==
  CASE context = "frame-navigation" -> "page.reload"
    [] context = "listener-setup" -> "setupEnhancedListeners"
    [] OTHER -> "none"

\* handleRecordingError(error, context) called when this.errorCount is count and
\* this.recording is rec; the recovery it attempts fails or not.  The try/catch around
\* the recovery catches whatever it raises.
handleRecordingError(count, rec, context, recoveryFails) ==
  IF AtCeiling(count + 1)
  THEN [present |-> TRUE, context |-> context, before |-> count, after |-> count + 1,
        recording |-> FALSE, recovery |-> "none", outcome |-> "returned"]
  ELSE [present |-> TRUE, context |-> context, before |-> count, after |-> count + 1,
        recording |-> rec, recovery |-> RecoveryFor(context),
        outcome |-> IF recoveryFails THEN "returned" ELSE "returned"]

\* The 'framenavigated' handler runs for the main frame while the engine records, and
\* its waitAfterAction raises: the navigation is pushed, handleRecordingError(error,
\* 'frame-navigation') counts the error and, at the ceiling, ends the recording; below
\* it the page is reloaded, unless the reload raises too.
NavigationHandlerRaises(reloads) ==
  /\ recording
  /\ navHandlers > 0
  /\ heap' = [heap EXCEPT ![actionsRef] =
                Append(@, [type |-> "navigate", timestamp |-> now - startTime])]
  /\ lastFault' = handleRecordingError(errorCount, recording, "frame-navigation", ~reloads)
  /\ errorCount' = lastFault'.after
  /\ recording' = lastFault'.recording
  /\ docs' = IF lastFault'.recovery = "page.reload" /\ reloads
             THEN [f \in {0} |-> FreshDoc(newDocScripts)] ELSE docs
  /\ UNCHANGED <<actionsRef, netRef, startTime, now, newDocScripts, requestHandlers,
                 navHandlers, memoryTimers, lastCleanup, callerPc, sessions, returned,
                 reqLog, retryPending>>
  /\ UNCHANGED <<drainFailed, startCall>>
  /\ UNCHANGED <<optVars, urlVars, fmVars, wfVars, wmVars, waVars, niVars, bmVars>>

\* startRecording(name, url) during which page.evaluateOnNewDocument of
\* setupEnhancedListeners rejects: no script and no handler is registered, and
\* handleRecordingError(error, 'listener-setup'), which is not awaited, begins its delay.
StartRecordingSetupRaises ==
  /\ callerPc = "idle"
  /\ sessions < MaxSessions
  /\ sessions' = sessions + 1
  /\ actionsRef' = FreshRefs(sessions').actions
  /\ netRef' = FreshRefs(sessions').network
  /\ heap' = [r \in DOMAIN heap \cup {actionsRef', netRef'} |->
                IF r \in {actionsRef', netRef'} THEN <<>> ELSE heap[r]]
  /\ startTime' = now
  /\ requestHandlers' = requestHandlers + 1
  /\ memoryTimers' = memoryTimers + 1
  /\ lastFault' = handleRecordingError(0, TRUE, "listener-setup", FALSE)
  /\ errorCount' = lastFault'.after
  /\ recording' = lastFault'.recording
  /\ retryPending' = (lastFault'.recovery = "setupEnhancedListeners")
  /\ startCall' = StartCallOf({"setupEnhancedListeners"},
                              startRecording({"setupEnhancedListeners"}))
  /\ UNCHANGED <<now, newDocScripts, navHandlers, lastCleanup, docs, callerPc, returned,
                 reqLog>>
  /\ UNCHANGED <<drainFailed>>
  /\ UNCHANGED <<optVars, urlVars, fmVars, wfVars, wmVars, waVars, niVars, bmVars>>

\* startRecording(name, url) during which the steps in failing raise.
StartRecordingFails(failing) ==
  LET end == startRecording(failing)
  IN /\ callerPc = "idle"
     /\ sessions < MaxSessions
     /\ failing # {}
     /\ sessions' = sessions + 1
     /\ actionsRef' = FreshRefs(sessions').actions
     /\ netRef' = FreshRefs(sessions').network
     /\ heap' = [r \in DOMAIN heap \cup {actionsRef', netRef'} |->
                   IF r \in {actionsRef', netRef'} THEN <<>> ELSE heap[r]]
     /\ startTime' = now
     /\ requestHandlers' = requestHandlers + end.handlers
     /\ newDocScripts' = newDocScripts + end.scripts
     /\ navHandlers' = navHandlers + end.scripts
     /\ memoryTimers' = memoryTimers + end.timers
     /\ lastFault' = IF end.listenerFault
                     THEN handleRecordingError(0, TRUE, "listener-setup", FALSE)
                     ELSE lastFault
     /\ errorCount' = IF end.listenerFault THEN lastFault'.after ELSE 0
     /\ retryPending' = IF end.listenerFault
                        THEN lastFault'.recovery = "setupEnhancedListeners"
                        ELSE retryPending
     /\ recording' = end.recording
     /\ startCall' = StartCallOf(failing, end)
     /\ UNCHANGED <<now, lastCleanup, docs, callerPc, returned, reqLog>>
     /\ UNCHANGED <<drainFailed>>
     /\ UNCHANGED <<optVars, urlVars, fmVars, wfVars, wmVars, waVars, niVars, bmVars>>

\* The delay of the recovery is over and setupEnhancedListeners runs again: it
\* registers the script and the handlers, or it raises again and its own catch calls
\* handleRecordingError(error, 'listener-setup') once more.
ListenerSetupRetry(raises) ==
  /\ retryPending
  /\ IF raises
     THEN /\ lastFault' = handleRecordingError(errorCount, recording, "listener-setup", TRUE)
          /\ errorCount' = lastFault'.after
          /\ recording' = lastFault'.recording
          /\ retryPending' = (lastFault'.recovery = "setupEnhancedListeners")
          /\ UNCHANGED <<newDocScripts, navHandlers>>
     ELSE /\ newDocScripts' = newDocScripts + 1
          /\ navHandlers' = navHandlers + 1
          /\ retryPending' = FALSE
          /\ UNCHANGED <<lastFault, errorCount, recording>>
  /\ UNCHANGED <<actionsRef, netRef, heap, startTime, now, requestHandlers, memoryTimers,
                 lastCleanup, docs, callerPc, sessions, returned, reqLog>>
  /\ UNCHANGED <<drainFailed, startCall>>
  /\ UNCHANGED <<optVars, urlVars, fmVars, wfVars, wmVars, waVars, niVars, bmVars>>

UserEventTypes == {"click"}

\* The engine's calls.
CallNext ==
  \/ StartRecording
  \/ StopRecording

\* The session and the page's actions.
EngNext ==
  \/ CallNext
  \/ Tick
  \/ \E sameDocument \in BOOLEAN : MainFrameNavigated(sameDocument)
  \/ EmbeddedFrameAttached
  \/ \E f \in DOMAIN docs, type \in UserEventTypes : UserEvent(f, type)
  \/ OperatorClicksStop

\* The session and the requests the relevance test tells apart.
RelevanceNext ==
  \/ CallNext
  \/ \E req \in RelevanceSamples, fault \in RequestFaults : OnRequest(req, fault)

\* The session and the page's requests.
NetNext ==
  \/ CallNext
  \/ \E req \in RequestSamples, fault \in RequestFaults : OnRequest(req, fault)
  \/ MemoryGuardTick

-----------------------------------------------------------------------------
(* WaitManager: the waits, each a sequence of awaits inside one try/catch *)

\* The grain of the clock the waits are observed with: their shortest timer, the
\* delay(500) of waitForPopup.
WaitStepMs == 500

WaitNames == {"waitForElement", "waitForAnimations", "waitForNetworkIdle", "waitForPopup",
              "waitForLoadingComplete", "waitForMetaMask", "waitForNavigation"}

\* What a wait finds when it is called: waitForAnimations the longer of the element's
\* animation and transition durations (ms), waitForMetaMask whether a notification
\* page is open (1) or not (0).
WaitArgs(w) ==
  CASE w = "waitForAnimations" -> {0, 500, 1500}
    [] w = "waitForMetaMask" -> {0, 1}
    [] OTHER -> {0}

\* An await that ends when its condition holds or its timer fires: the timer's firing
\* throws (into the wait's catch block) or lets the wait go on.
Until(ms, onTimeout) == [kind |-> "until", timeout |-> ms, onTimeout |-> onTimeout]

\* An await that ends when its timer fires, and not before.
Sleep(ms) == [kind |-> "sleep", timeout |-> ms, onTimeout |-> "next"]

\* waitForElement whose clickability check has no reject timer of 5000 ms.
WaitPhases_Mutant(w, arg) ==
  CASE w = "waitForElement" -> <<Until(5000, "throw"), Until(20000, "throw")>>
    [] w = "waitForAnimations" -> <<Sleep(Min({arg, 1000}))>>
    [] w = "waitForNetworkIdle" -> <<Until(3000, "next"), Sleep(3000)>>
    [] w = "waitForPopup" -> <<Until(5000, "throw"), Sleep(500), Until(3000, "next")>>
    [] w = "waitForLoadingComplete" -> <<Until(10000, "throw")>>
    [] w = "waitForMetaMask" -> IF arg = 1 THEN <<Sleep(1000)>> ELSE <<Until(3000, "throw")>>
    [] OTHER -> <<Until(5000, "throw")>>

\* The awaits of each wait, in order.
\*   waitForElement: waitForSelector (5000), then the clickability check, rejected at 5000
\*   waitForAnimations: setTimeout(resolve, Math.min(maxDuration, 1000))
\*   waitForNetworkIdle: waitForNavigation (3000, its rejection swallowed), then the
\*     observer, whose settle timer finds requestCount > 0 whenever it fires, so that
\*     the promise resolves at its 3000 ms timer
\*   waitForPopup: waitForSelector (5000), delay(500), the images or 3000
\*   waitForLoadingComplete: waitForFunction (10000)
\*   waitForMetaMask: delay(1000) when the notification page is open, else
\*     waitForSelector (3000)
\*   waitForNavigation: waitForNavigation (5000)
WaitPhases(w, arg) ==
  CASE w = "waitForElement" -> <<Until(5000, "throw"), Until(5000, "throw")>>
    [] w = "waitForAnimations" -> <<Sleep(Min({arg, 1000}))>>
    [] w = "waitForNetworkIdle" -> <<Until(3000, "next"), Sleep(3000)>>
    [] w = "waitForPopup" -> <<Until(5000, "throw"), Sleep(500), Until(3000, "next")>>
    [] w = "waitForLoadingComplete" -> <<Until(10000, "throw")>>
    [] w = "waitForMetaMask" -> IF arg = 1 THEN <<Sleep(1000)>> ELSE <<Until(3000, "throw")>>
    [] OTHER -> <<Until(5000, "throw")>>

WmInit ==
  /\ wmWait = "none"
  /\ wmArg = 0
  /\ wmPhase = 0
  /\ wmElapsed = 0
  /\ wmPhaseElapsed = 0

\* The await the wait is in.
WmPhase == WaitPhases(wmWait, wmArg)[wmPhase]

\* The wait returns to its caller.
WmReturns ==
  /\ wmWait' = "none"
  /\ wmArg' = 0
  /\ wmPhase' = 0
  /\ wmElapsed' = 0
  /\ wmPhaseElapsed' = 0

\* The wait goes on to its next await, or returns after its last.
WmAdvances ==
  IF wmPhase < Len(WaitPhases(wmWait, wmArg))
  THEN /\ wmPhase' = wmPhase + 1
       /\ wmPhaseElapsed' = 0
       /\ UNCHANGED <<wmWait, wmArg, wmElapsed>>
  ELSE WmReturns

\* A wait is called.
WmCall(w, arg) ==
  /\ wmWait = "none"
  /\ wmWait' = w
  /\ wmArg' = arg
  /\ wmPhase' = 1
  /\ wmElapsed' = 0
  /\ wmPhaseElapsed' = 0
  /\ UNCHANGED <<optVars, urlVars, fmVars, wfVars, engVars, waVars, niVars, bmVars>>

\* Time passes in an await, up to the firing of its timer.
WmElapse ==
  /\ wmWait # "none"
  /\ wmPhaseElapsed + WaitStepMs <= WmPhase.timeout
  /\ wmElapsed' = wmElapsed + WaitStepMs
  /\ wmPhaseElapsed' = wmPhaseElapsed + WaitStepMs
  /\ UNCHANGED <<wmWait, wmArg, wmPhase>>
  /\ UNCHANGED <<optVars, urlVars, fmVars, wfVars, engVars, waVars, niVars, bmVars>>

\* The condition of the await holds: the element is visible, the navigation is over...
WmConditionMet ==
  /\ wmWait # "none"
  /\ WmPhase.kind = "until"
  /\ WmAdvances
  /\ UNCHANGED <<optVars, urlVars, fmVars, wfVars, engVars, waVars, niVars, bmVars>>

\* The timer of the await fires.
WmTimerFires ==
  /\ wmWait # "none"
  /\ wmPhaseElapsed >= WmPhase.timeout
  /\ IF WmPhase.onTimeout = "throw" THEN WmReturns ELSE WmAdvances
  /\ UNCHANGED <<optVars, urlVars, fmVars, wfVars, engVars, waVars, niVars, bmVars>>

\* The page call of the await throws (the element is gone, the context destroyed): the
\* catch block of the wait takes it, and the wait returns.
WmPageCallThrows ==
  /\ wmWait # "none"
  /\ WmReturns
  /\ UNCHANGED <<optVars, urlVars, fmVars, wfVars, engVars, waVars, niVars, bmVars>>

WmInFlight == wmWait # "none"

WfInFlight == wfPc \in {"check", "sleep"}

StopWaitInFlight == callerPc # "idle"

NoWaitInFlight == ~WmInFlight /\ ~WfInFlight /\ ~StopWaitInFlight

-----------------------------------------------------------------------------
(* WaitManager: waitBeforeAction and waitAfterAction, by which of their steps fail *)

\* The waits, each of which catches what its page calls throw.
CatchingWaits ==
  {"waitForElement", "waitForAnimations", "waitForNetworkIdle", "waitForPopup",
   "waitForNavigation", "waitForLoadingComplete", "waitForMetaMask"}

\* The steps of the two entry points: the waits, detectChanges and delay.
WaitSteps == CatchingWaits \cup {"detectChanges"}

\* The step raises into the entry point that awaits it.
StepRaises(step, fails) == step \in fails /\ step \notin CatchingWaits

\* What detectChanges can report; navigationDetected is never set.
DetectableChanges == {"popupDetected", "loadingDetected", "metamaskDetected"}

\* What a page can show after an action.
PageSignals == {"popup", "navigation", "loading", "metamask"}

\* detectChanges(): the flags it sets for what the page shows.
detectChanges(signals) ==
  { CASE g = "popup" -> "popupDetected"
      [] g = "navigation" -> "navigationDetected"
      [] g = "loading" -> "loadingDetected"
      [] g = "metamask" -> "metamaskDetected" : g \in signals }
  \cap DetectableChanges

\* waitBeforeAction(selector, action): its steps run inside one try/catch.
waitBeforeAction(enabled, fails) ==
  IF ~enabled THEN "returned"
  ELSE IF \E step \in {"waitForElement", "waitForAnimations", "waitForNetworkIdle"} :
            StepRaises(step, fails)
       THEN "returned"
       ELSE "returned"

\* The specialised waits waitAfterAction runs for what detectChanges found.
WaitsFor(changes) ==
  { CASE c = "popupDetected" -> "waitForPopup"
      [] c = "navigationDetected" -> "waitForNavigation"
      [] c = "loadingDetected" -> "waitForLoadingComplete"
      [] c = "metamaskDetected" -> "waitForMetaMask" : c \in changes }
  \cup {"waitForNetworkIdle"}

\* waitAfterAction(action): its steps are awaited with no try/catch around them.
waitAfterAction(enabled, fails, changes) ==
  IF ~enabled THEN "returned"
  ELSE IF StepRaises("detectChanges", fails) THEN "raised"
  ELSE IF \E step \in WaitsFor(changes) : StepRaises(step, fails) THEN "raised"
  ELSE "returned"

\* The elements of order that are in S, in that order.
RECURSIVE Selected(_, _)
Selected(order, S) ==
  IF order = <<>> THEN <<>>
  ELSE (IF Head(order) \in S THEN <<Head(order)>> ELSE <<>>) \o Selected(Tail(order), S)

\* The waits waitBeforeAction awaits, in order.
WaitsOfBeforeAction(enabled) ==
  IF ~enabled THEN <<>>
  ELSE <<"waitForElement", "waitForAnimations", "waitForNetworkIdle">>

\* The waits waitAfterAction awaits, in order.
WaitsOfAfterAction(enabled, fails, changes) ==
  IF ~enabled \/ StepRaises("detectChanges", fails) THEN <<>>
  ELSE Selected(<<"waitForPopup", "waitForNavigation", "waitForLoadingComplete",
                  "waitForMetaMask", "waitForNetworkIdle">>, WaitsFor(changes))

WaInit ==
  /\ smartWaitEnabled = TRUE
  /\ waEntry = "none"
  /\ waFails = {}
  /\ waChanges = {}
  /\ waResult = "none"
  /\ waSignals = {}
  /\ waRan = <<>>

\* setSmartWait(enabled)
SetSmartWait(enabled) ==
  /\ smartWaitEnabled' = enabled
  /\ UNCHANGED <<waEntry, waFails, waChanges, waResult, waSignals, waRan>>
  /\ UNCHANGED <<optVars, urlVars, fmVars, wfVars, engVars, wmVars, niVars, bmVars>>

\* A call of waitBeforeAction during which the steps in fails fail.
WaitBeforeActionCall(fails) ==
  /\ waEntry' = "waitBeforeAction"
  /\ waFails' = fails
  /\ waChanges' = {}
  /\ waResult' = waitBeforeAction(smartWaitEnabled, fails)
  /\ waSignals' = {}
  /\ waRan' = WaitsOfBeforeAction(smartWaitEnabled)
  /\ UNCHANGED smartWaitEnabled
  /\ UNCHANGED <<optVars, urlVars, fmVars, wfVars, engVars, wmVars, niVars, bmVars>>

\* A call of waitAfterAction while the page shows signals and during which the steps
\* in fails fail.
WaitAfterActionCall(fails, signals) ==
  /\ waEntry' = "waitAfterAction"
  /\ waFails' = fails
  /\ waSignals' = signals
  /\ waChanges' = IF smartWaitEnabled /\ "detectChanges" \notin fails
                  THEN detectChanges(signals) ELSE {}
  /\ waResult' = waitAfterAction(smartWaitEnabled, fails, detectChanges(signals))
  /\ waRan' = WaitsOfAfterAction(smartWaitEnabled, fails, detectChanges(signals))
  /\ UNCHANGED smartWaitEnabled
  /\ UNCHANGED <<optVars, urlVars, fmVars, wfVars, engVars, wmVars, niVars, bmVars>>

WaitEntryNext ==
  \/ \E enabled \in BOOLEAN : SetSmartWait(enabled)
  \/ \E fails \in SUBSET {"waitForElement", "waitForAnimations", "waitForNetworkIdle"} :
       WaitBeforeActionCall(fails)
  \/ \E fails \in SUBSET {"detectChanges", "waitForPopup", "waitForNavigation",
                          "waitForNetworkIdle"},
        signals \in SUBSET PageSignals : WaitAfterActionCall(fails, signals)

-----------------------------------------------------------------------------
(* waitForNetworkIdle: the promise with the PerformanceObserver.  Time advances *)
(* in steps of the settle window.                                               *)

SettleWindowMs == 500

NetworkIdleCeilingMs == 3000

NiInit ==
  /\ niPc = "idle"
  /\ niElapsed = 0
  /\ niRequestCount = 0
  /\ niTimer = -1
  /\ niLastLoad = -1
  /\ niLoads = 0
  /\ niResolvedAt = -1

\* page.evaluate begins: the observer observes and the ceiling timer is set.
NiObserve ==
  /\ niPc # "observing"
  /\ niPc' = "observing"
  /\ niElapsed' = 0
  /\ niRequestCount' = 0
  /\ niTimer' = -1
  /\ niLastLoad' = -1
  /\ niLoads' = 0
  /\ niResolvedAt' = -1
  /\ UNCHANGED <<optVars, urlVars, fmVars, wfVars, engVars, wmVars, waVars, bmVars>>

\* The observer's callback for one resource entry: requestCount++, the settle timer
\* cleared and set again.
NiResourceEntry ==
  /\ niPc = "observing"
  /\ niLoads < MaxLoads
  /\ niRequestCount' = niRequestCount + 1
  /\ niTimer' = niElapsed + SettleWindowMs
  /\ niLastLoad' = niElapsed
  /\ niLoads' = niLoads + 1
  /\ UNCHANGED <<niPc, niElapsed, niResolvedAt>>
  /\ UNCHANGED <<optVars, urlVars, fmVars, wfVars, engVars, wmVars, waVars, bmVars>>

\* Time passes while no timer is due.
NiElapse ==
  /\ niPc = "observing"
  /\ niElapsed < NetworkIdleCeilingMs
  /\ niTimer # niElapsed
  /\ niElapsed' = niElapsed + SettleWindowMs
  /\ UNCHANGED <<niPc, niRequestCount, niTimer, niLastLoad, niLoads, niResolvedAt>>
  /\ UNCHANGED <<optVars, urlVars, fmVars, wfVars, engVars, wmVars, waVars, bmVars>>

\* The settle timer fires: if (requestCount === 0) resolve(); requestCount = 0.
NiSettleTimerFires ==
  /\ niPc = "observing"
  /\ niTimer = niElapsed
  /\ niPc' = IF niRequestCount = 0 THEN "resolved" ELSE "observing"
  /\ niResolvedAt' = IF niRequestCount = 0 THEN niElapsed ELSE niResolvedAt
  /\ niRequestCount' = 0
  /\ niTimer' = -1
  /\ UNCHANGED <<niElapsed, niLastLoad, niLoads>>
  /\ UNCHANGED <<optVars, urlVars, fmVars, wfVars, engVars, wmVars, waVars, bmVars>>

\* The timer of 3000 ms fires: observer.disconnect(); resolve().
NiCeilingFires ==
  /\ niPc = "observing"
  /\ niElapsed = NetworkIdleCeilingMs
  /\ niPc' = "resolved"
  /\ niResolvedAt' = niElapsed
  /\ UNCHANGED <<niElapsed, niRequestCount, niTimer, niLastLoad, niLoads>>
  /\ UNCHANGED <<optVars, urlVars, fmVars, wfVars, engVars, wmVars, waVars, bmVars>>

NetworkIdleNext ==
  \/ NiObserve
  \/ NiResourceEntry
  \/ NiElapse
  \/ NiSettleTimerFires
  \/ NiCeilingFires

-----------------------------------------------------------------------------
(* BrowserManager.retryOperation *)

BackoffBaseMs == 1000

BackoffCapMs == 10000

\* The delay without its ceiling.
BackoffDelay_Mutant(attempt) == BackoffBaseMs * 2 ^ (attempt - 1)

\* Math.min(1000 * Math.pow(2, attempt - 1), 10000)
BackoffDelay(attempt) == Min({BackoffBaseMs * 2 ^ (attempt - 1), BackoffCapMs})

\* What the operation returns when its invocation number k does not fail.
ValueOfAttempt(k) == 100 + k

\* The loop of retryOperation(operation, operationName, maxRetries) from the given
\* attempt on; fails[k] tells whether invocation number k of the operation rejects,
\* delays are the delays awaited so far.
RECURSIVE retryFrom(_, _, _, _)
retryFrom(fails, maxRetries, attempt, delays) ==
  IF attempt > maxRetries
  THEN [outcome |-> "raised", value |-> 0, calls |-> attempt - 1, delays |-> delays]
  ELSE IF ~fails[attempt]
  THEN [outcome |-> "returned", value |-> ValueOfAttempt(attempt), calls |-> attempt,
        delays |-> delays]
  ELSE retryFrom(fails, maxRetries, attempt + 1,
                 IF attempt < maxRetries THEN Append(delays, BackoffDelay(attempt))
                 ELSE delays)

retryOperation(fails, maxRetries) == retryFrom(fails, maxRetries, 1, <<>>)

NoRetryCall ==
  [present |-> FALSE, maxRetries |-> 0, fails |-> <<>>, outcome |-> "none", value |-> 0,
   calls |-> 0, delays |-> <<>>]

BmInit == retryCall = NoRetryCall

\* A call of retryOperation with an operation whose invocations fail as fails tells.
RetryOperation(fails, maxRetries) ==
  /\ LET end == retryOperation(fails, maxRetries)
     IN retryCall' = [present |-> TRUE, maxRetries |-> maxRetries, fails |-> fails,
                      outcome |-> end.outcome, value |-> end.value, calls |-> end.calls,
                      delays |-> end.delays]
  /\ UNCHANGED <<optVars, urlVars, fmVars, wfVars, engVars, wmVars, waVars, niVars>>

RetryNext ==
  \E maxRetries \in 0..MaxRetryBound :
    \E fails \in [1..maxRetries -> BOOLEAN] : RetryOperation(fails, maxRetries)

\* A long session on a busy page, and its memory guard.
MemoryNext ==
  \/ StartRecording
  \/ \E nActions \in ActionBursts, nNetwork \in NetworkBursts :
       GuardIntervalPasses(nActions, nNetwork)
  \/ \E k \in 1..MaxQuietIntervals : QuietUntilCleanupIsDue(k)
  \/ MemoryGuardTick

\* Sessions with an embedded frame, stopped while some frames cannot be evaluated.
DrainNext ==
  \/ StartRecording
  \/ MainFrameNavigated(FALSE)
  \/ EmbeddedFrameAttached
  \/ \E f \in DOMAIN docs, type \in UserEventTypes : UserEvent(f, type)
  \/ StopRecording
  \/ \E failing \in SUBSET DOMAIN docs : StopRecordingFramesFail(failing)

\* The steps that fail in one startRecording: probes, setup steps, or all of them.
StartFaults ==
  (SUBSET PreSessionProbes) \cup (SUBSET SetupSteps) \cup {PreSessionProbes \cup SetupSteps}

\* Sessions in which setupEnhancedListeners fails whenever it runs.
ChainNext ==
  \/ StartRecordingSetupRaises
  \/ ListenerSetupRetry(TRUE)
  \/ StopRecording
  \/ Tick

\* The delay(2000) of the recovery ends.
ChainFairness == WF_vars(ListenerSetupRetry(TRUE))

\* Sessions started while steps of startRecording fail.
StartNext ==
  \/ StartRecording
  \/ \E failing \in StartFaults : StartRecordingFails(failing)
  \/ \E raises \in BOOLEAN : ListenerSetupRetry(raises)

\* Sessions whose navigations and whose listener setup fail.
FaultNext ==
  \/ StartRecording
  \/ StartRecordingSetupRaises
  \/ \E raises \in BOOLEAN : ListenerSetupRetry(raises)
  \/ \E reloads \in BOOLEAN : NavigationHandlerRaises(reloads)

\* A session whose navigations fail, its caller in waitForStop.
CeilingNext ==
  \/ StartRecording
  \/ WaitForStopCall
  \/ WaitForStopTimer
  \/ \E throws \in BOOLEAN : WaitForStopPoll(throws)
  \/ WaitForStopSettled
  \/ \E reloads \in BOOLEAN : NavigationHandlerRaises(reloads)
  \/ OperatorClicksStop
  \/ StopRecording

\* The interval of waitForStop keeps firing and its callback keeps running.
CeilingFairness ==
  /\ WF_vars(WaitForStopTimer)
  /\ WF_vars(\E throws \in BOOLEAN : WaitForStopPoll(throws))
  /\ WF_vars(WaitForStopSettled)

\* The waits of the program, one in flight at a time, in a session or out of one.
WaitsNext ==
  \/ StartRecording
  \/ OperatorClicksStop
  \/ NoWaitInFlight /\ WaitForStopCall
  \/ WaitForStopTimer
  \/ \E throws \in BOOLEAN : WaitForStopPoll(throws)
  \/ WaitForStopSettled
  \/ NoWaitInFlight /\ \E pattern \in UrlPatterns, timeout \in WaitForFrameTimeouts :
                         WaitForFrameCall(pattern, timeout)
  \/ WaitForFramePoll
  \/ WaitForFrameWake
  \/ NoWaitInFlight /\ \E w \in WaitNames : \E arg \in WaitArgs(w) : WmCall(w, arg)
  \/ WmElapse
  \/ WmConditionMet
  \/ WmTimerFires
  \/ WmPageCallThrows

\* The event loop runs the timers that are due and the page answers.
WaitsFairness ==
  /\ WF_vars(WaitForStopTimer)
  /\ WF_vars(\E throws \in BOOLEAN : WaitForStopPoll(throws))
  /\ WF_vars(WaitForStopSettled)
  /\ WF_vars(WaitForFramePoll)
  /\ WF_vars(WaitForFrameWake)
  /\ WF_vars(WmElapse)
  /\ WF_vars(WmTimerFires)

-----------------------------------------------------------------------------
(* Specifications: one per part, every variable initialised *)

Init == OptInit /\ UrlInit /\ FrameInit /\ EngInit /\ WmInit /\ WaInit /\ NiInit /\ BmInit

Spec == Init /\ [][EngNext]_vars

SpecNetwork == Init /\ [][NetNext]_vars

SpecRelevance == Init /\ [][RelevanceNext]_vars

FairSpecWaits == Init /\ [][WaitsNext]_vars /\ WaitsFairness

FairSpecCeiling == Init /\ [][CeilingNext]_vars /\ CeilingFairness

SpecWaitEntry == Init /\ [][WaitEntryNext]_vars

SpecNetworkIdle == Init /\ [][NetworkIdleNext]_vars

SpecFaults == Init /\ [][FaultNext]_vars

SpecSnapshot == Init /\ [][SnapshotNext]_vars

FairSpecChain == Init /\ [][ChainNext]_vars /\ ChainFairness

SpecStart == Init /\ [][StartNext]_vars

SpecDrain == Init /\ [][DrainNext]_vars

SpecMemory == Init /\ [][MemoryNext]_vars

SpecRetry == Init /\ [][RetryNext]_vars

SpecButtons == Init /\ [][ButtonNext]_vars

SpecAgain == Init /\ [][AgainNext]_vars

SpecOptimizer == Init /\ [][OptNext]_vars

SpecApi == Init /\ [][ApiNext]_vars

SpecSelectors == Init /\ [][SelectorNext]_vars

SpecHeaders == Init /\ [][HeaderNext]_vars

SpecPurpose == Init /\ [][PurposeNext]_vars

SpecDex == Init /\ [][DexNext]_vars

SpecAmounts == Init /\ [][AmountNext]_vars

SpecDirection == Init /\ [][DirectionNext]_vars

SpecTotal == Init /\ [][TotalNext]_vars

SpecExample == Init /\ [][ExampleNext]_vars

SpecUrl == Init /\ [][UrlNext]_vars

SpecFrame == Init /\ [][FrameNext]_vars

SpecWaitForFrame == Init /\ [][WaitFrameNext]_vars

-----------------------------------------------------------------------------
(* Properties of the optimizer *)

NonDecreasing(seq) == \A k \in 1..(Len(seq) - 1) : seq[k].timestamp <= seq[k + 1].timestamp

\* The order stopRecording gives recording.actions: the navigations pushed during the
\* session, in the order they happened, then the drained page actions sorted by time.
EngineOrdered(actions) ==
  \E n \in 0..Len(actions) :
    /\ \A i \in 1..n : actions[i].type = "navigate"
    /\ \A i \in (n + 1)..Len(actions) : actions[i].type # "navigate"
    /\ NonDecreasing(SubSeq(actions, 1, n))
    /\ NonDecreasing(SubSeq(actions, n + 1, Len(actions)))

KeptIds == { uniqueActions[k].id : k \in 1..Len(uniqueActions) }

\* The kept actions before action i that have its key.
KeptBefore(i) ==
  { j \in 1..(i - 1) :
      j \in KeptIds /\ generateActionKey(recActions[j]) = generateActionKey(recActions[i]) }

\* C1: on a recording in the order stopRecording builds it, removeDuplicates drops
\* exactly the actions that have the key of an earlier kept action and lie within 1000 ms
\* of the most recent such action; every other action is kept (so the first action of a
\* key, and the first one past the window, which becomes the new reference), the kept
\* actions keep their input order, and duplicatesRemoved counts the dropped ones.
C1_DedupDropsExactlyRepeatsInWindow ==
  (optPc = "done" /\ EngineOrdered(recActions)) =>
    /\ \A i \in 1..Len(recActions) :
         (i \notin KeptIds) <=>
           /\ KeptBefore(i) # {}
           /\ Abs(recActions[i].timestamp - recActions[Max(KeptBefore(i))].timestamp) <= 1000
    /\ uniqueActions = SelectSeq(recActions, LAMBDA a : a.id \in KeptIds)
    /\ summary.duplicatesRemoved = Len(recActions) - Cardinality(KeptIds)

\* A recording in engine order where one repeat is dropped and a later repeat of the
\* same key, past the window, is kept.
C1_Witness ==
  /\ optPc = "done" /\ EngineOrdered(recActions)
  /\ \E i \in 1..Len(recActions) : i \notin KeptIds
  /\ \E i \in 1..Len(recActions) : i \in KeptIds /\ KeptBefore(i) # {}

\* C2: after extractEnhancedSwapFlow, whatever the order of the input actions, the k
\* steps of the swap flow have the ids 0..k-1 in list order and timestamps that never
\* decrease along the list.
C2_SwapFlowIdsContiguousAndSorted ==
  optPc = "done" =>
    /\ \A k \in 1..Len(swapFlow) : swapFlow[k].id = k - 1
    /\ NonDecreasing(swapFlow)

\* A run where the scan pushed the steps in another order than the final one.
C2_Witness ==
  /\ optPc = "done"
  /\ Len(swapFlow) >= 2
  /\ ScanFrom(uniqueActions, 1, [flow |-> <<>>, flowIndex |-> 0]).flow # swapFlow

\* C4: after optimize(), summary.compressionRatio is a number (a fixed sentinel when the
\* recording has no actions), never the NaN of a division by zero.
C4_CompressionRatioDefined ==
  optPc = "done" => summary.compressionRatio.kind = "number"

-----------------------------------------------------------------------------
(* Properties of normalizeUrl *)

\* C3: normalizeUrl is idempotent: for every url, parseable or not, with any number of
\* trailing slashes and any query, normalizeUrl(normalizeUrl(u)) = normalizeUrl(u).
C3_NormalizeUrlIdempotent ==
  urlPc = "twice" => urlTwice = urlOnce

-----------------------------------------------------------------------------
(* Properties of the FrameManager *)

\* The embedded frames whose probe matched in the last detectFrameContext.
ProbedMatches == { j \in 2..Len(detectProbes) : detectProbes[j].outcome = "match" }

\* C9: detectFrameContext returns the page when the selector matches in the root
\* document, or in no frame; otherwise the first embedded frame, in page.frames() order,
\* in which it matches (the only one, when it matches in one frame); and it never
\* raises, whichever probes throw.
C9_DetectFrameContext ==
  detectResult.kind # "none" =>
    /\ detectResult.kind # "raised"
    /\ detectProbes[1].outcome = "match" => detectResult = ThePage
    /\ (detectProbes[1].outcome # "match" /\ ProbedMatches = {}) => detectResult = ThePage
    /\ (detectProbes[1].outcome # "match" /\ ProbedMatches # {}) =>
         detectResult = [kind |-> "frame", id |-> detectProbes[Min(ProbedMatches)].id]

\* The probe of the root throws, the probe of one frame throws, and a later frame, where
\* the selector matches, is returned.
C9_Witness ==
  /\ detectResult.kind = "frame"
  /\ detectProbes[1].outcome = "throws"
  /\ \E j \in 2..Len(detectProbes) : detectProbes[j].outcome = "throws"

\* C10: waitForFrame returns a frame at the first poll at which the url of a live frame
\* contains the pattern (while it sleeps, the last poll saw none); it returns null only
\* when no poll saw one, not before the timeout has elapsed and no later than the timeout
\* plus one poll interval.
C10_WaitForFrame ==
  /\ wfPc = "found" =>
       wfLiveMatch /\ UrlIncludes(wfResult.url, wfPattern) /\ wfElapsed < wfTimeout
  /\ wfPc = "sleep" => ~wfLiveMatch /\ wfElapsed < wfTimeout
  /\ wfPc = "check" => wfElapsed < wfTimeout + PollInterval
  /\ wfPc = "null" =>
       ~wfLiveMatch /\ wfTimeout <= wfElapsed /\ wfElapsed <= wfTimeout + PollInterval

\* No frame matched at any poll, and null came back after the timeout, within a poll
\* interval of it.
C10_Witness ==
  wfPc = "null" /\ wfElapsed > wfTimeout

\* What each bounded wait may take at most: the sum of the timeouts of its awaits.
WaitBound(w) ==
  CASE w = "waitForElement" -> 10000
    [] w = "waitForAnimations" -> 1000
    [] w = "waitForNetworkIdle" -> 6000
    [] w = "waitForPopup" -> 8500
    [] w = "waitForLoadingComplete" -> 10000
    [] w = "waitForMetaMask" -> 3000
    [] OTHER -> 5000

\* C5, as amended: every wait of the wait engine and waitForFrame return within a finite
\* bound even when the condition never holds: a wait in flight has not taken longer
\* than the sum of its timeouts (waitForFrame: its timeout plus one poll interval), and
\* when no more time can pass in it, its timer is due.  waitForStop is not among them.
C5_BoundedWaitsReturnInTime ==
  /\ WmInFlight =>
       /\ wmElapsed <= WaitBound(wmWait)
       /\ ENABLED WmElapse \/ ENABLED WmTimerFires
  /\ WfInFlight => wfElapsed <= wfTimeout + PollInterval

\* waitForPopup is still in flight when every one of its timers has run out: the
\* dialog never showed an image loaded, and the wait is about to return.
C5_Witness ==
  /\ wmWait = "waitForPopup"
  /\ wmElapsed = WaitBound("waitForPopup")
  /\ ~ENABLED WmElapse

\* C5, as stated: every wait, waitForStop among them, returns.
C5_EveryWaitReturns ==
  /\ StopWaitInFlight ~> ~StopWaitInFlight
  /\ WmInFlight ~> ~WmInFlight
  /\ WfInFlight ~> ~WfInFlight

\* C6: a Recording that stopRecording returned keeps the actions and the
\* networkRequests it had on return, whatever is done with the engine afterwards.
C6_RecordingFrozen ==
  \A i \in DOMAIN returned :
    /\ heap[returned[i].actionsRef] = returned[i].actions
    /\ heap[returned[i].netRef] = returned[i].networkRequests

\* C7: the actions of a Recording that stopRecording returned are in non-decreasing
\* order of timestamp.
C7_ActionsOrdered ==
  \A i \in DOMAIN returned : NonDecreasing(returned[i].actions)

\* C8: every run of the 'request' handler on a request continues it, and none aborts
\* it: recording or not, relevant or not, thrown in or not.
C8_RequestsContinue ==
  /\ reqLog.continues = reqLog.handlerRuns
  /\ reqLog.aborts = 0

\* A request reached the handlers during a session and reading it threw.
C8_Witness ==
  /\ reqLog.handlerRuns > 0
  /\ reqLog.recording
  /\ reqLog.fault = "beforePush"

\* The first request of the Recording with the method and the normalized url of request k.
FirstOfKey(k) ==
  Min({ j \in 1..k : /\ recNetwork[j].method = recNetwork[k].method
                     /\ normalizeUrl(recNetwork[j].url) = normalizeUrl(recNetwork[k].url) })

\* The endpoints that stand for request k.
EndpointsOf(k) ==
  { i \in DOMAIN apiEndpoints : /\ apiEndpoints[i].method = recNetwork[k].method
                                /\ apiEndpoints[i].url = normalizeUrl(recNetwork[k].url) }

\* C11: after optimize() no two api endpoints have the same method and normalized url;
\* every request is stood for by exactly one endpoint, requests that differ only in their
\* query string by the same one, and that endpoint has the url, the purpose and the
\* parameters of the first request of its method and normalized url.
C11_OneEndpointPerMethodAndUrl ==
  optPc = "done" =>
    /\ \A i, j \in DOMAIN apiEndpoints :
         i # j => <<apiEndpoints[i].method, apiEndpoints[i].url>>
                    # <<apiEndpoints[j].method, apiEndpoints[j].url>>
    /\ \A k \in DOMAIN recNetwork :
         /\ Cardinality(EndpointsOf(k)) = 1
         /\ \A i \in EndpointsOf(k) :
              LET first == recNetwork[FirstOfKey(k)]
              IN /\ apiEndpoints[i].url = normalizeUrl(first.url)
                 /\ apiEndpoints[i].purpose = determineEnhancedApiPurpose(first.url)
                 /\ apiEndpoints[i].params = extractParams(first.url)
    /\ \A j, k \in DOMAIN recNetwork :
         /\ recNetwork[j].method = recNetwork[k].method
         /\ BeforeQuery(recNetwork[j].url) = BeforeQuery(recNetwork[k].url)
         => EndpointsOf(j) = EndpointsOf(k)

\* Two requests that differ only in their query string were optimized into one endpoint,
\* which has the parameters of the first.
C11_Witness ==
  /\ optPc = "done"
  /\ Len(recNetwork) = 2
  /\ recNetwork[1].method = recNetwork[2].method
  /\ recNetwork[1].url = <<"h", "/", "api", "/", "quote", "?", "x=1">>
  /\ recNetwork[2].url = <<"h", "/", "api", "/", "quote", "?", "y=2">>
  /\ Len(apiEndpoints) = 1
  /\ apiEndpoints[1].purpose = "quote"
  /\ apiEndpoints[1].params = [n \in {"x"} |-> "1"]

\* The Recording's actions are those of the worked example, in its order.
IsExampleLog ==
  /\ Len(recActions) = Len(ExampleLog)
  /\ \A i \in DOMAIN ExampleLog :
       recActions[i] = MkAction(ExampleLog[i].kind, ExampleLog[i].timestamp, i)

\* What the worked example says of a step of the swap flow.
StepView(step) ==
  [id |-> step.id, action |-> step.action, value |-> step.value,
   timestamp |-> step.timestamp]

\* C12: optimize() of the worked example's action log yields the swap flow INPUT_AMOUNT
\* (value 10, at 200), APPROVE (at 5100), CLICK_SWAP (at 6200) with the ids 0, 1, 2, one
\* duplicate removed and swapDetected true.
C12_WorkedExample ==
  optPc = "done" /\ IsExampleLog =>
    /\ [k \in DOMAIN swapFlow |-> StepView(swapFlow[k])]
         = << [id |-> 0, action |-> "INPUT_AMOUNT", value |-> "10", timestamp |-> 200],
              [id |-> 1, action |-> "APPROVE", value |-> Absent, timestamp |-> 5100],
              [id |-> 2, action |-> "CLICK_SWAP", value |-> Absent, timestamp |-> 6200] >>
    /\ summary.duplicatesRemoved = 1
    /\ summary.swapDetected

\* optimize() has run on the worked example's log and dropped its last click.
C12_Witness ==
  /\ optPc = "done"
  /\ IsExampleLog
  /\ Len(uniqueActions) = 4
  /\ Len(swapFlow) = 3

\* C13: Stopped is terminal: once stopRecording has ended a session that startRecording
\* began, the engine is never recording again.
C13_StoppedIsTerminal ==
  (\E i \in DOMAIN returned : returned[i].actionsRef # 1) => ~recording

\* C14: when the error counter has reached its ceiling while a waitForStop is in flight,
\* that waitForStop eventually resolves.
C14_CeilingResolvesWaitForStop ==
  (errorCount >= maxErrors /\ StopWaitInFlight) ~> ~StopWaitInFlight

\* C15: neither waitBeforeAction nor waitAfterAction raises, whichever of their steps
\* fail.
C15_WaitEntryPointsNeverRaise == waResult # "raised"

\* No action of the de-duplicated Recording makes the scan push a step.
NoStepRecognised ==
  \A i \in DOMAIN uniqueActions :
    ScanAction(uniqueActions, i, [flow |-> <<>>, flowIndex |-> 0]).flow = <<>>

\* C16: optimize() never raises, whatever the Recording: no actions, actions without an
\* element snapshot, requests without headers, urls that do not parse; and when no
\* action is recognised as a step the swap flow is empty and swapDetected is false.
C16_OptimizeIsTotal ==
  /\ optPc # "raised"
  /\ optPc = "done" /\ NoStepRecognised => swapFlow = <<>> /\ ~summary.swapDetected

\* optimize() has returned on a Recording with an action without an element snapshot, a
\* request without headers and a request whose url does not parse, and found no step.
C16_Witness ==
  /\ optPc = "done"
  /\ \E i \in DOMAIN recActions : ~recActions[i].element.present
  /\ \E k \in DOMAIN recNetwork : ~recNetwork[k].headers.present
  /\ \E k \in DOMAIN recNetwork : ~Parses(recNetwork[k].url)
  /\ NoStepRecognised
  /\ swapFlow = <<>>

\* C17: a user event in a document adds exactly one raw action record to the buffer of
\* that document: a buffer that grows in a step grows by one.
C17_OneRecordPerUserEvent ==
  [][\A f \in DOMAIN docs \cap DOMAIN docs' :
       Len(docs'[f].buffer) > Len(docs[f].buffer)
         => Len(docs'[f].buffer) = Len(docs[f].buffer) + 1]_vars

\* The url contains one of the API-like keywords of the relevance predicate.
MatchesApiKeyword(u) ==
  \E kw \in {"/api/", "/swap", "/quote", "/transaction", "/token", "/price",
             "/liquidity", "/pool", ".json", "/v1/", "/v2/", "/v3/"} :
    RequestUrlIncludes(u, kw)

\* The url names an image, a stylesheet, a script, a font or a favicon.
NamesStaticAsset(u) == u = "https://dex/logo.png"

\* C18: a request that reaches the handler while the engine records is appended to
\* networkRequests exactly when its url contains an API-like keyword or its method is a
\* mutating verb, and its url names no static asset.
C18_AppendedIffRelevant ==
  reqLog.handlerRuns > 0 /\ reqLog.recording /\ reqLog.fault = "none" =>
    (reqLog.pushed <=> /\ MatchesApiKeyword(reqLog.url) \/ reqLog.method \in {"POST", "PUT"}
                       /\ ~NamesStaticAsset(reqLog.url))

\* The actions of the Recording are in the order of time, no two at the same time.
Chronological ==
  \A i, j \in DOMAIN recActions : i < j => recActions[i].timestamp < recActions[j].timestamp

RECURSIVE PendingAmountSteps(_, _, _)
\* The INPUT_AMOUNT steps, as [timestamp, value], that amount inputs give when each
\* is held against the most recent step: within 2 s of it the input replaces its value,
\* later than that it begins a new step.
PendingAmountSteps(actions, i, steps) ==
  IF i > Len(actions) THEN steps
  ELSE LET a == actions[i]
           n == Len(steps)
       IN PendingAmountSteps(actions, i + 1,
            IF n > 0 /\ a.timestamp - steps[n].timestamp <= 2000
            THEN [steps EXCEPT ![n].value = a.value]
            ELSE Append(steps, [timestamp |-> a.timestamp, value |-> a.value]))

\* C19: in a Recording of amount inputs in the order of time, an input within 2 s of the
\* most recent INPUT_AMOUNT step updates that step and adds none, and an input more than
\* 2 s after it adds a step, however many steps came before.
C19_AmountUpdatesPendingStep ==
  optPc = "done" /\ Chronological =>
    [k \in DOMAIN swapFlow |-> [timestamp |-> swapFlow[k].timestamp,
                                value |-> swapFlow[k].value]]
      = PendingAmountSteps(uniqueActions, 1, <<>>)

SelectorRoles ==
  {"fromTokenButton", "toTokenButton", "amountInput", "swapButton", "approveButton"}

\* The actions of the de-duplicated Recording that are harvested for the role.
HarvestedFor(role) ==
  { i \in DOMAIN uniqueActions : role \in DOMAIN HarvestAction(EmptyObject, uniqueActions[i]) }

\* C20: after optimize() every role for which an action was harvested is mapped to the
\* selector of the first such action.
C20_FirstWriterWins ==
  optPc = "done" =>
    \A role \in SelectorRoles :
      HarvestedFor(role) # {} =>
        /\ role \in DOMAIN essentialSelectors
        /\ essentialSelectors[role] = uniqueActions[Min(HarvestedFor(role))].selector

\* C21: the promise of waitForNetworkIdle resolves one settle window after the last
\* resource entry it observed, or at the ceiling of 3000 ms if that comes first or if
\* it observed none.
C21_ResolvesAfterSettleWindow ==
  niPc = "resolved" =>
    niResolvedAt = IF niLastLoad = -1 THEN NetworkIdleCeilingMs
                   ELSE Min({niLastLoad + SettleWindowMs, NetworkIdleCeilingMs})

\* The specialised wait of a signal.
WaitOfSignal(g) ==
  CASE g = "popup" -> "waitForPopup"
    [] g = "navigation" -> "waitForNavigation"
    [] g = "loading" -> "waitForLoadingComplete"
    [] g = "metamask" -> "waitForMetaMask"

\* C22: a call of waitAfterAction awaits the specialised wait of a signal exactly when
\* the page showed the signal, and awaits waitForNetworkIdle last.
C22_MatchingWaitsThenNetworkIdle ==
  waEntry = "waitAfterAction" =>
    /\ \A g \in PageSignals :
         (\E i \in DOMAIN waRan : waRan[i] = WaitOfSignal(g)) <=> g \in waSignals
    /\ waRan # <<>>
    /\ waRan[Len(waRan)] = "waitForNetworkIdle"

\* The token-selection clicks of the de-duplicated Recording.
TokenClicks ==
  { i \in DOMAIN uniqueActions :
      /\ ~SkipsAction(uniqueActions[i])
      /\ isEnhancedTokenSelection(uniqueActions[i], ToLowerCase(ElementText(uniqueActions[i])))
      /\ extractEnhancedTokenInfo(uniqueActions[i]) # Absent }

\* The step of the swap flow made from the action.
StepOf(i) ==
  CHOOSE k \in DOMAIN swapFlow :
    /\ swapFlow[k].timestamp = uniqueActions[i].timestamp
    /\ swapFlow[k].action \in {"SELECT_FROM", "SELECT_TO"}

\* The directions the records name from the 5 before action i to the 5 after it.
CuesAround(i) ==
  { DirectionCue(uniqueActions[j]) :
      j \in Max({1, i - 5}) .. Min({Len(uniqueActions), i + 5}) } \ {"none"}

\* C23: the direction of a token-selection click is the one direction that the records
\* from the 5 before it to the 5 after it name.
C23_DirectionFromFiveAround ==
  optPc = "done" =>
    \A i \in TokenClicks :
      Cardinality(CuesAround(i)) = 1 => swapFlow[StepOf(i)].action \in CuesAround(i)

\* No record that determineTokenDirection looks at for the click names a direction.
NoCueFound(i) ==
  \A j \in NearbyRange(uniqueActions, i) : DirectionCue(uniqueActions[j]) = "none"

\* C24: when no directional cue is found for any token-selection click, the first
\* token selection of the Recording is SELECT_FROM and every later one is SELECT_TO.
C24_DirectionByOrdinal ==
  optPc = "done" /\ (\A i \in TokenClicks : NoCueFound(i)) =>
    \A i \in TokenClicks :
      swapFlow[StepOf(i)].action =
        IF i = Min(TokenClicks) THEN "SELECT_FROM" ELSE "SELECT_TO"

C24_Witness ==
  /\ optPc = "done"
  /\ Cardinality(TokenClicks) >= 3
  /\ \A i \in TokenClicks : NoCueFound(i)
  /\ \E i \in TokenClicks : swapFlow[StepOf(i)].action = "SELECT_TO"

\* C25: a call of handleRecordingError adds one to the error counter; when that reaches
\* the ceiling the call leaves the engine not recording and attempts no recovery; below
\* the ceiling it attempts the recovery of its context and nothing else, and returns also
\* when the recovery fails.
C25_CountsThenStopsOrRecovers ==
  lastFault.present =>
    /\ lastFault.after = lastFault.before + 1
    /\ lastFault.outcome = "returned"
    /\ lastFault.after >= 10 => ~lastFault.recording /\ lastFault.recovery = "none"
    /\ lastFault.after < 10 =>
         lastFault.recovery = (IF lastFault.context = "frame-navigation" THEN "page.reload"
                               ELSE "setupEnhancedListeners")

C25_Witness ==
  /\ lastFault.present
  /\ lastFault.context = "listener-setup"
  /\ lastFault.after = 10
  /\ ~recording
  /\ ~retryPending

\* new holds the newest entries of old, in their order.
IsSuffix(new, old) ==
  /\ Len(new) <= Len(old)
  /\ new = SubSeq(old, Len(old) - Len(new) + 1, Len(old))

\* The step is a run of cleanupMemory: an interval of the memory guard fires while the
\* engine records and shouldCleanupMemory() holds.
CleanupRuns ==
  /\ recording
  /\ memoryTimers > 0
  /\ shouldCleanupMemory(now, lastCleanup, Len(heap[actionsRef]), Len(heap[netRef]))
  /\ now' = now
  /\ sessions' = sessions

\* C26: a run of cleanupMemory leaves at most 5000 actions and at most 3000 requests,
\* which are the newest ones in their order, and advances lastCleanup.
C26_CleanupKeepsNewest ==
  [][CleanupRuns =>
       /\ Len(heap'[actionsRef]) <= 5000
       /\ Len(heap'[netRef]) <= 3000
       /\ IsSuffix(heap'[actionsRef], heap[actionsRef])
       /\ IsSuffix(heap'[netRef], heap[netRef])
       /\ lastCleanup' = now
       /\ lastCleanup' > lastCleanup]_vars

C26_Witness ==
  /\ recording
  /\ lastCleanup > 0
  /\ Len(heap[actionsRef]) = 3000
  /\ heap[actionsRef][1] > 1
  /\ Len(heap[netRef]) = 2000
  /\ heap[netRef][1] > 1

\* C27: the frames of the registry are the live embedded frames, whatever frames were
\* attached, detached and navigated, and whatever their urls.
C27_RegistryIsLiveEmbeddedFrames ==
  { frameHierarchy[u] : u \in DOMAIN frameHierarchy }
    = { frames[k].id : k \in 2..Len(frames) }

SecretHeaders == {"authorization", "x-api-key"}

\* The allow-listed header names of the headers.
AllowListed(headers) ==
  IF ~headers.present THEN {}
  ELSE { n \in DOMAIN headers.fields :
           ToLowerCase(n) \in {"content-type", "authorization", "x-api-key", "referer"} }

\* The two headers differ only in the values of secrets and in headers that are not
\* allow-listed.
DifferOnlyInSecrets(h, g) ==
  /\ AllowListed(h) = AllowListed(g)
  /\ \A n \in AllowListed(h) :
       ToLowerCase(n) \notin SecretHeaders => h.fields[n] = g.fields[n]

\* The Recordings that differ from this one only in the values of secrets and in headers
\* that are not allow-listed.
SecretVariants ==
  { other \in [DOMAIN recNetwork -> [method : {"GET"}, url : { recNetwork[k].url : k \in DOMAIN recNetwork },
                                      headers : SecretHeaderSamples, response : {NoResponse}]] :
      \A k \in DOMAIN recNetwork :
        /\ other[k].url = recNetwork[k].url
        /\ DifferOnlyInSecrets(other[k].headers, recNetwork[k].headers) }

HeadersOf(endpoints) == [i \in DOMAIN endpoints |-> endpoints[i].headers]

\* C28: the headers of an endpoint hold allow-listed names only, with authorization and
\* x-api-key masked, and a Recording that differs only in the values of secrets and in
\* headers that are not allow-listed gives the same endpoint headers.
C28_SecretsNeverReachEndpoints ==
  optPc = "done" =>
    /\ \A i \in DOMAIN apiEndpoints : \A n \in DOMAIN apiEndpoints[i].headers :
         /\ ToLowerCase(n) \in {"content-type", "authorization", "x-api-key", "referer"}
         /\ ToLowerCase(n) \in SecretHeaders => apiEndpoints[i].headers[n] = "***MASKED***"
    /\ \A other \in SecretVariants :
         HeadersOf(extractEnhancedApiPatterns(other)) = HeadersOf(apiEndpoints)

C28_Witness ==
  /\ optPc = "done"
  /\ Len(apiEndpoints) = 2
  /\ \E other \in SecretVariants :
       /\ other[1].headers.present /\ recNetwork[1].headers.present
       /\ "Authorization" \in DOMAIN other[1].headers.fields
       /\ other[1].headers.fields["Authorization"] # recNetwork[1].headers.fields["Authorization"]
       /\ DOMAIN other[2].headers.fields # DOMAIN recNetwork[2].headers.fields
  /\ apiEndpoints[1].headers = [n \in {"Authorization"} |-> "***MASKED***"]

\* The purposes in the order of their priority, and the keywords of each.
PurposeOrder == <<"quote", "swap", "approve", "token_list", "balance", "gas">>

PurposeKeywords(purpose) ==
  CASE purpose = "quote" -> {"quote", "price", "rate"}
    [] purpose = "swap" -> {"swap", "execute", "trade"}
    [] purpose = "approve" -> {"approve", "allowance", "permit"}
    [] purpose = "token_list" -> {"token", "list", "pairs"}
    [] purpose = "balance" -> {"balance", "account"}
    [] purpose = "gas" -> {"gas", "estimate"}

\* The places in the order of the purposes the url matches.
PurposesMatched(u) ==
  { r \in DOMAIN PurposeOrder : UrlHasSegment(u, PurposeKeywords(PurposeOrder[r])) }

\* C29: the purpose of an endpoint is the first purpose, in the order quote, swap,
\* approve, token_list, balance, gas, that the url of its request matches, and 'other'
\* when it matches none.
C29_PurposeIsFirstMatch ==
  optPc = "done" =>
    \A k \in DOMAIN recNetwork : \A i \in EndpointsOf(k) :
      LET u == recNetwork[FirstOfKey(k)].url
      IN apiEndpoints[i].purpose =
           IF PurposesMatched(u) = {} THEN "other"
           ELSE PurposeOrder[Min(PurposesMatched(u))]

C29_Witness ==
  /\ optPc = "done"
  /\ Len(recNetwork) = 2
  /\ recNetwork[1].url = <<"h", "/", "swap", "/", "quote">>
  /\ recNetwork[2].url = <<"h", "/", "gas", "/", "tokens">>
  /\ apiEndpoints[1].purpose = "quote"
  /\ apiEndpoints[2].purpose = "token_list"

\* The known exchanges in the order of their priority.
DexPriority == <<"Uniswap", "PancakeSwap", "SushiSwap", "1inch", "Jupiter", "Raydium">>

\* The names by which the url of the session and the urls of the endpoints match
\* the exchange.
DexNameInUrl(dex) ==
  CASE dex = "Uniswap" -> "uniswap" [] dex = "PancakeSwap" -> "pancakeswap"
    [] dex = "SushiSwap" -> "sushiswap" [] dex = "1inch" -> "1inch"
    [] dex = "Jupiter" -> "jupiter" [] dex = "Raydium" -> "raydium"

DexNameInApi(dex) ==
  CASE dex = "Uniswap" -> "uniswap" [] dex = "PancakeSwap" -> "pancake"
    [] dex = "SushiSwap" -> "sushi" [] dex = "1inch" -> "1inch"
    [] dex = "Jupiter" -> "jupiter" [] dex = "Raydium" -> "raydium"

\* The static tuple of the exchange.
DexTuple(dex) ==
  CASE dex = "Uniswap" -> <<"complex", 95, "high">>
    [] dex = "PancakeSwap" -> <<"medium", 90, "medium">>
    [] dex = "SushiSwap" -> <<"medium", 85, "medium">>
    [] dex = "1inch" -> <<"simple", 98, "low">>
    [] dex = "Jupiter" -> <<"complex", 92, "high">>
    [] dex = "Raydium" -> <<"complex", 93, "high">>

\* The places in the order of priority of the exchanges that the Recording matches.
DexMatched ==
  { r \in DOMAIN DexPriority :
      \/ DexNameInUrl(DexPriority[r]) \in DexNamesIn(ToLowerCase(recUrl))
      \/ \E i \in DOMAIN apiEndpoints : \E k \in DOMAIN apiEndpoints[i].url :
           DexNameInApi(DexPriority[r]) \in DexNamesIn(ToLowerCase(apiEndpoints[i].url[k])) }

\* C30: after optimize() the exchange is the first one, in the order Uniswap,
\* PancakeSwap, SushiSwap, 1inch, Jupiter, Raydium, that the url of the session or the
\* url of an endpoint matches, with its static tuple; when none matches it is unknown,
\* with the estimated success rate 0.
C30_DexIsFirstMatch ==
  optPc = "done" =>
    IF DexMatched = {}
    THEN dexClass.dexType = "Unknown DEX" /\ dexClass.estimatedSuccessRate = 0
    ELSE LET dex == DexPriority[Min(DexMatched)]
         IN /\ dexClass.dexType = dex
            /\ <<dexClass.swapComplexity, dexClass.estimatedSuccessRate, dexClass.riskLevel>>
                 = DexTuple(dex)

C30_Witness ==
  /\ optPc = "done"
  /\ recUrl = "https://app.1inch.io"
  /\ Len(apiEndpoints) = 2
  /\ Cardinality(DexMatched) = 3
  /\ dexClass.dexType = "PancakeSwap"

RECURSIVE SumOfLengths(_, _)
\* The number of actions buffered in the frames ids.
SumOfLengths(ds, ids) ==
  IF ids = {} THEN 0
  ELSE LET f == CHOOSE g \in ids : TRUE
       IN Len(ds[f].buffer) + SumOfLengths(ds, ids \ {f})

\* How often the action occurs in the sequence.
Occurrences(seq, a) == Cardinality({ k \in DOMAIN seq : seq[k] = a })

\* The step is a stopRecording.
StopReturns == Len(returned') = Len(returned) + 1

\* The actions the Recording returned by this step has from the page.
PageActionsReturned ==
  SubSeq(returned'[Len(returned')].actions, Len(heap[actionsRef]) + 1,
         Len(returned'[Len(returned')].actions))

\* C31: stopRecording returns a Recording whatever frames cannot be evaluated; a frame
\* that cannot be evaluated contributes no action, and every action buffered in another
\* frame is in the Recording, as often as it is buffered.
C31_FailedFrameIsSkipped ==
  [][StopReturns =>
       /\ Len(PageActionsReturned) = SumOfLengths(docs, DOMAIN docs \ drainFailed')
       /\ \A f \in DOMAIN docs \ drainFailed' : \A k \in DOMAIN docs[f].buffer :
            LET a == [type |-> docs[f].buffer[k].type,
                      timestamp |-> docs[f].buffer[k].timestamp - startTime]
            IN Occurrences(PageActionsReturned, a)
                 >= Occurrences(docs[f].buffer, docs[f].buffer[k])]_vars

\* A Recording returned while the main frame could not be evaluated, with an action of
\* the embedded frame.
C31_Witness ==
  /\ returned # <<>>
  /\ drainFailed = {0}
  /\ Len(docs[0].buffer) > 0
  /\ 1 \in DOMAIN docs
  /\ Len(docs[1].buffer) > 0
  /\ Len(returned[Len(returned)].actions) = Len(docs[1].buffer)

\* C32: getAllFramesInfo returns one entry per live frame, in the order of
\* page.frames(); the entry of a frame whose evaluation threw has the error marker and
\* the frame's url, the entry of another frame has no error marker, whatever frames
\* threw.
C32_OneEntryPerFrame ==
  infoCall.present =>
    /\ Len(framesInfo) = Len(frames)
    /\ \A k \in 1..Len(frames) :
         /\ framesInfo[k].url = frames[k].url
         /\ framesInfo[k].isMainFrame = (k = 1)
         /\ framesInfo[k].error = (frames[k].id \in infoCall.failing)

\* A snapshot of three frames of which the second one threw.
C32_Witness ==
  /\ infoCall.present
  /\ Len(frames) = 3
  /\ infoCall.failing = {frames[2].id}
  /\ Len(framesInfo) = 3
  /\ framesInfo[2].error
  /\ ~framesInfo[3].error

\* C33: a startRecording in which only pre-session probes fail does not raise: it has
\* registered its 'request' handler and its listener script, and the recording flag is
\* true when it returns.
C33_ProbeFailureNeverBlocks ==
  (startCall.present /\ startCall.failing # {} /\ startCall.failing \subseteq PreSessionProbes) =>
    /\ ~startCall.raised
    /\ startCall.recording
    /\ startCall.handlers = 1
    /\ startCall.scripts = 1

\* A session started while every probe failed, recording.
C33_Witness ==
  /\ startCall.present
  /\ startCall.failing = PreSessionProbes
  /\ ~startCall.raised
  /\ recording
  /\ requestHandlers > 0
  /\ newDocScripts > 0

\* C34: a startRecording in which a setup step fails raises to its caller, with the
\* recording flag false.
C34_SetupFailureIsRaised ==
  (startCall.present /\ startCall.failing \cap SetupSteps # {}) =>
    /\ startCall.raised
    /\ ~startCall.recording

\* C35: a second optimize() on the same DataOptimizer returns the swap flow, the api
\* endpoints and the summary that the first call returned.
C35_OptimizeTwiceIsTheSame ==
  (firstResult.present /\ optPc = "done") =>
    /\ swapFlow = firstResult.swapFlow
    /\ apiEndpoints = firstResult.apiEndpoints
    /\ summary = firstResult.summary

\* The first invocation that does not fail among the first n, 0 if there is none.
FirstSuccess(fails, n) ==
  IF \E k \in 1..n : ~fails[k] THEN Min({ k \in 1..n : ~fails[k] }) ELSE 0

\* min(1000 * 2^(attempt-1), 10000) for the attempts 1..n.
DelaysAfter(n) ==
  [k \in 1..n |-> IF 1000 * 2 ^ (k - 1) < 10000 THEN 1000 * 2 ^ (k - 1) ELSE 10000]

\* C36: retryOperation invokes the operation at most maxRetries times; it returns the
\* value of the first invocation that succeeds and invokes no more; it raises when
\* maxRetries invocations failed; it has waited min(1000 * 2^(attempt-1), 10000) ms
\* after every failed attempt but the last of maxRetries.
C36_BoundedRetries ==
  retryCall.present =>
    LET n == retryCall.maxRetries
        first == FirstSuccess(retryCall.fails, n)
    IN /\ retryCall.calls <= n
       /\ first # 0 => /\ retryCall.outcome = "returned"
                       /\ retryCall.value = ValueOfAttempt(first)
                       /\ retryCall.calls = first
                       /\ retryCall.delays = DelaysAfter(first - 1)
       /\ first = 0 => /\ retryCall.outcome = "raised"
                       /\ retryCall.calls = n
                       /\ retryCall.delays = DelaysAfter(Max({n - 1, 0}))

\* The sixth attempt of six succeeds, after a wait at the ceiling.
C36_Witness ==
  /\ retryCall.present
  /\ retryCall.maxRetries = 6
  /\ retryCall.outcome = "returned"
  /\ retryCall.calls = 6
  /\ retryCall.delays = <<1000, 2000, 4000, 8000, 10000>>

\* C37: a request that is appended to networkRequests is appended once, and
\* request.continue() is called on it once, in whatever session of the engine.
C37_AppendedAndContinuedOnce ==
  [][(netRef' = netRef /\ Len(heap'[netRef]) > Len(heap[netRef])) =>
       /\ Len(heap'[netRef]) = Len(heap[netRef]) + 1
       /\ reqLog'.continues = 1]_vars

\* C38: while a session goes on, an action captured in a document stays in the buffer
\* that stopRecording drains: no step of the session takes it away.
C38_NoCapturedActionLost ==
  [][(recording /\ recording') =>
       \A f \in DOMAIN docs : \A k \in DOMAIN docs[f].buffer :
         /\ f \in DOMAIN docs'
         /\ k \in DOMAIN docs'[f].buffer
         /\ docs'[f].buffer[k] = docs[f].buffer[k]]_vars

\* C39: after optimize(), summary.optimizedActions is at most summary.originalActions,
\* and the swap flow has at most one step of each recorded action.
C39_AtMostOneStepPerAction ==
  optPc = "done" =>
    /\ summary.optimizedActions <= summary.originalActions
    /\ \A i \in DOMAIN recActions :
         Cardinality({ k \in DOMAIN swapFlow :
                         /\ swapFlow[k].timestamp = recActions[i].timestamp
                         /\ swapFlow[k].selector = recActions[i].selector }) <=
         Cardinality({ j \in DOMAIN recActions :
                         /\ recActions[j].timestamp = recActions[i].timestamp
                         /\ recActions[j].selector = recActions[i].selector })

=============================================================================
